---- MODULE Spec2Model ----
(***************************************************************************)
(* A model of quark's resource allocation core:                            *)
(*   - QuarkIpam (quark/ipam.py): IP address allocation against subnets    *)
(*     with exclusion policies, reclaim after reuse_after, deallocation;   *)
(*   - NVPDriver / OptimizedNVPDriver (quark/drivers): switch placement,   *)
(*     the local mirror of the controller's switches and ports, and the    *)
(*     security-group rule quotas.                                         *)
(* Addresses are small integers.  A CIDR or an exclusion rule is a pair    *)
(* (address, hostbits) with hostbits = address width - prefix length, so   *)
(* that the block it denotes has 2^hostbits addresses, as netaddr's        *)
(* IPNetwork((address, prefix)) has.                                       *)
(***************************************************************************)
EXTENDS Integers, Sequences, FiniteSets, TLC

VARIABLES
    \* ---- persistence layer, IPAM tables
    ip_addresses,          \* set of IPAddress rows
    next_auto_assign_ip,   \* Subnet.next_auto_assign_ip, per subnet
    subnet_policy,         \* Subnet.ip_policy, per subnet
    network_policy,        \* Network.ip_policy
    now,                   \* timeutils.utcnow()
    ipam_last,             \* the last IPAM call and what it returned
    ipam_calls,            \* IPAM calls made so far
    pending,               \* per concurrent transaction: its uncommitted writes
    mac_addresses,         \* set of MacAddress rows
    next_auto_assign_mac,  \* MacAddressRange.next_auto_assign_mac
    mac_log,               \* the MAC allocator's calls so far, with their results
    \* ---- NVP driver
    strategy,              \* "baseline" (NVPDriver) or "optimized"
    limits,                \* NVPDriver.limits
    nvp_lswitches,         \* controller: logical switches
    nvp_lports,            \* controller: logical ports
    nvp_profiles,          \* controller: security profiles
    LSwitch,               \* local table quark_nvp_driver_lswitch
    LSwitchPort,           \* local table quark_nvp_driver_lswitchport
    SecurityProfile,       \* local table quark_nvp_driver_security_profile
    next_uuid,             \* uuids handed out by the controller so far
    networks,              \* the plugin's networks: absent, active or deleted
    drv_last,              \* the last driver call: its result and its event log
    placing,               \* per concurrent create_port: what it has read
    orig_limits            \* per request: the limits its limits_checked saved

macVars == <<mac_addresses, next_auto_assign_mac, mac_log>>
ipamVars == <<ip_addresses, next_auto_assign_ip, subnet_policy, network_policy,
              now, ipam_last, ipam_calls, pending, mac_addresses,
              next_auto_assign_mac, mac_log>>
drvVars == <<strategy, limits, nvp_lswitches, nvp_lports, nvp_profiles, LSwitch,
             LSwitchPort, SecurityProfile, next_uuid, networks, drv_last,
             placing, orig_limits>>
vars == <<ip_addresses, next_auto_assign_ip, subnet_policy, network_policy,
          now, ipam_last, ipam_calls, pending, mac_addresses,
          next_auto_assign_mac, mac_log, strategy, limits, nvp_lswitches, nvp_lports,
          nvp_profiles, LSwitch, LSwitchPort, SecurityProfile, next_uuid,
          networks, drv_last, placing, orig_limits>>

\* Python's None in an integer-valued place.
None == 0 - 1

(***************************************************************************)
(* Bounds of the model.                                                    *)
(***************************************************************************)
\* Largest address value a cursor or a row may hold.
MaxAddr == 4
\* The clock runs from 0 to MaxTime.
MaxTime == 1
\* Largest reuse_after a caller passes.
MaxReuseAfter == 1
\* Number of allocator calls in a run.
MaxCalls == 5

(***************************************************************************)
(* IPAM: the data the allocator runs against.                              *)
(***************************************************************************)
Ports == {"p1", "p2"}
PortTenant == [p \in Ports |-> IF p = "p1" THEN "t1" ELSE "t2"]
Net == "n1"
SubnetIds == {"s1", "s2"}
\* The order in which subnet_find_allocation_counts enumerates the subnets.
SubnetOrder == <<"s1", "s2">>
Subnets ==
    [s \in SubnetIds |->
        IF s = "s1"
        THEN [id |-> "s1", network_id |-> Net, ip_version |-> 4,
              cidr |-> [address |-> 0, hostbits |-> 2]]
        ELSE [id |-> "s2", network_id |-> Net, ip_version |-> 6,
              cidr |-> [address |-> 4, hostbits |-> 1]]]
\* Addresses callers ask for by value.
RequestedIps == {1, 3}
NoPolicy == [exists |-> FALSE, exclude |-> {}]
SubnetPolicyChoices ==
    {NoPolicy, [exists |-> TRUE, exclude |-> {[address |-> 0, hostbits |-> 1]}]}
NetworkPolicyChoices ==
    {NoPolicy, [exists |-> TRUE, exclude |-> {[address |-> 2, hostbits |-> 0]}]}

RECURSIVE Pow2(_)
Pow2(n) == IF n = 0 THEN 1 ELSE 2 * Pow2(n - 1)

\* netaddr.IPSet([IPNetwork((address, prefix))]): the block holding address.
Block(net) ==
    {a \in 0..(MaxAddr + 1) : a \div Pow2(net.hostbits) = net.address \div Pow2(net.hostbits)}

\* netaddr.IPNetwork(subnet["cidr"]).size
CidrSize(s) == Pow2(Subnets[s].cidr.hostbits)

\* get_ip_policy_rule_set with the two policies merged.
get_ip_policy_rule_set_merged(s) ==
    Block(Subnets[s].cidr) \cap
        UNION {Block(ippr) : ippr \in subnet_policy[s].exclude
                                          \cup network_policy.exclude}

\* QuarkIpam.get_ip_policy_rule_set: the subnet's policy, or else the
\* network's, or else none; its excluded blocks intersected with the CIDR.
get_ip_policy_rule_set(s) ==
    LET ip_policy == IF subnet_policy[s].exists THEN subnet_policy[s]
                     ELSE IF network_policy.exists THEN network_policy
                     ELSE NoPolicy
        ip_policy_rules == UNION {Block(ippr) : ippr \in ip_policy.exclude}
    IN  Block(Subnets[s].cidr) \cap ip_policy_rules

(***************************************************************************)
(* quark.db.api, as QuarkIpam uses it.  The persistence layer is not part  *)
(* of the sources at hand; these follow the query contract:                *)
(* exact-match filters, reuse_after compared with the clock at read time,  *)
(* uniqueness of (network, address) among allocated rows at commit.        *)
(***************************************************************************)
NoRow == [id |-> <<"none", None>>, address |-> None, subnet_id |-> "none",
          network_id |-> "none", tenant_id |-> "none", version |-> None,
          deallocated |-> FALSE, deallocated_at |-> None, ports |-> {}]

\* db_api.ip_address_find(network_id=, reuse_after=, deallocated=True,
\* ip_address=): the released rows of the network whose quarantine is over;
\* scope=ONE takes any one of them.
ip_address_find_reusable(rows, net_id, reuse_after, ip_address, t) ==
    {r \in rows : /\ r.network_id = net_id
                  /\ r.deallocated
                  /\ r.deallocated_at + reuse_after <= t
                  /\ (ip_address # None => r.address = ip_address)}

\* db_api.ip_address_find(network_id=, ip_address=, tenant_id=, scope=ONE)
ip_address_find(rows, net_id, ip_address, tenant_id) ==
    {r \in rows : /\ r.network_id = net_id
                  /\ r.address = ip_address
                  /\ r.tenant_id = tenant_id}

\* db_api.subnet_find_allocation_counts: the subnets of the network (of the
\* version asked for) in enumeration order.
subnet_find(cursor, net_id, version) ==
    SelectSeq(SubnetOrder,
              LAMBDA s : /\ s \in DOMAIN cursor
                         /\ Subnets[s].network_id = net_id
                         /\ (version # None => Subnets[s].ip_version = version))

\* ... and with each its current allocation count.
ips_in_subnet(rows, s) ==
    Cardinality({r \in rows : r.subnet_id = s /\ ~r.deallocated})

\* No uniqueness constraint.
UniqueViolation_off(rows, r) == FALSE

\* The commit-time uniqueness constraint: row r, written as allocated,
\* collides with another allocated row of the same network and address.
UniqueViolation(rows, r) ==
    \E q \in rows : /\ q.id # r.id
                    /\ q.network_id = r.network_id
                    /\ q.address = r.address
                    /\ ~q.deallocated

\* IPAddress.deallocated set to true: the row is stamped with the time.
set_deallocated(r, t) ==
    [r EXCEPT !.deallocated = TRUE, !.deallocated_at = t]

(***************************************************************************)
(* QuarkIpam                                                               *)
(***************************************************************************)
NoSubnet == "none"

\* QuarkIpam._choose_available_subnet: the first subnet, of those
\* enumerated, that holds the requested address (if any) and whose size
\* exceeds allocated + excluded; the exclusions are counted only when no
\* address is requested.
RECURSIVE choose_from(_, _, _, _)
choose_from(rows, subnets, i, ip_address) ==
    IF i > Len(subnets) THEN NoSubnet
    ELSE LET s == subnets[i]
             policy_size == IF ip_address = None
                            THEN Cardinality(get_ip_policy_rule_set(s))
                            ELSE 0
         IN  IF ip_address # None /\ ip_address \notin Block(Subnets[s].cidr)
             THEN choose_from(rows, subnets, i + 1, ip_address)
             ELSE IF CidrSize(s) > ips_in_subnet(rows, s) + policy_size
             THEN s
             ELSE choose_from(rows, subnets, i + 1, ip_address)

_choose_available_subnet(rows, cursor, net_id, version, ip_address) ==
    choose_from(rows, subnet_find(cursor, net_id, version), 1, ip_address)

\* The loop taking the cursor's value untested.
next_free_untested(rows, net_id, tenant_id, policy, c) == c

\* The sequential assignment loop of allocate_ip_address (lines 133-144):
\* from the cursor c on, the first value that is neither excluded nor held
\* by a row of this tenant and network.  The cursor is left one past it.
RECURSIVE next_free(_, _, _, _, _)
next_free(rows, net_id, tenant_id, policy, c) ==
    IF c > MaxAddr THEN c
    ELSE IF policy # {} /\ c \in policy
    THEN next_free(rows, net_id, tenant_id, policy, c + 1)
    ELSE IF ip_address_find(rows, net_id, c, tenant_id) # {}
    THEN next_free(rows, net_id, tenant_id, policy, c + 1)
    ELSE c

Failure(cursor) ==
    [result |-> "IpAddressGenerationFailure", kind |-> "none", row |-> NoRow,
     cursor |-> cursor]

\* QuarkIpam.allocate_ip_address up to its write: the outcomes the call can
\* have on the tables (rows, cursor), each with the row it would return and
\* the cursor it would leave.
allocate_ip_address(rows, cursor, net_id, tenant_id, reuse_after, version, ip_address, t) ==
    LET reusable == ip_address_find_reusable(rows, net_id, reuse_after,
                                             ip_address, t)
        subnet == _choose_available_subnet(rows, cursor, net_id, version,
                                           ip_address)
    IN  IF reusable # {}
        THEN {[result |-> "ok", kind |-> "reclaim",
               row |-> [r EXCEPT !.deallocated = FALSE,
                                 !.deallocated_at = None],
               cursor |-> cursor] : r \in reusable}
        ELSE IF subnet = NoSubnet
        THEN {Failure(cursor)}
        ELSE IF ip_address # None
        THEN IF ip_address_find(rows, net_id, ip_address, tenant_id) # {}
             THEN {Failure(cursor)}
             ELSE {[result |-> "ok", kind |-> "requested",
                    row |-> [id |-> <<tenant_id, ip_address>>, address |-> ip_address,
                             subnet_id |-> subnet, network_id |-> net_id,
                             tenant_id |-> tenant_id,
                             version |-> Subnets[subnet].ip_version,
                             deallocated |-> FALSE, deallocated_at |-> None,
                             ports |-> {}],
                    cursor |-> cursor]}
        ELSE LET next_ip == next_free(rows, net_id, tenant_id,
                                      get_ip_policy_rule_set(subnet),
                                      cursor[subnet])
             IN  {[result |-> "ok", kind |-> "sequential",
                   row |-> [id |-> <<tenant_id, next_ip>>, address |-> next_ip,
                            subnet_id |-> subnet, network_id |-> net_id,
                            tenant_id |-> tenant_id,
                            version |-> Subnets[subnet].ip_version,
                            deallocated |-> FALSE, deallocated_at |-> None,
                            ports |-> {}],
                   cursor |-> [cursor EXCEPT ![subnet] = next_ip + 1]]}

\* The released rows of the network holding address a that are still in
\* quarantine for a call made at time t with reuse_after.
Quarantined(rows, net_id, a, reuse_after, t) ==
    {r \in rows : /\ r.network_id = net_id /\ r.address = a
                  /\ r.deallocated /\ t - r.deallocated_at < reuse_after}

Idle == [result |-> "idle", kind |-> "none", row |-> NoRow, cursor |-> <<>>]

\* port is the port handed to deallocate_ip_address.
NoCall == [op |-> "none", result |-> "none", kind |-> "none",
           version |-> None, requested |-> None, row |-> NoRow,
           quarantined |-> FALSE, port |-> "none"]

\* The row as written by the call, referenced by the port it was allocated
\* for (the port's ip_addresses relation).
Attach(r, port) == [r EXCEPT !.ports = @ \cup {port}]

\* The tables after row r is written (inserted, or updated in place).
Written(rows, r) == {q \in rows : q.id # r.id} \cup {r}

\* The transaction's writes reach the tables: the reclaimed row has its two
\* columns updated in place, a new row is inserted; either is referenced by
\* the port; the cursor a sequential assignment advanced is stored.  The
\* uniqueness constraint rejects the commit as a whole.
CommitWrites(rows, cursor, o, port) ==
    LET target == IF o.kind = "reclaim"
                  THEN [(CHOOSE q \in rows : q.id = o.row.id)
                            EXCEPT !.deallocated = FALSE,
                                   !.deallocated_at = None]
                  ELSE o.row
    IN  IF UniqueViolation(rows, target)
        THEN [ok |-> FALSE, rows |-> rows, cursor |-> cursor]
        ELSE [ok |-> TRUE,
              rows |-> Written(rows, Attach(target, port)),
              cursor |-> IF o.kind = "sequential"
                         THEN [cursor EXCEPT ![o.row.subnet_id] =
                                                 o.cursor[o.row.subnet_id]]
                         ELSE cursor]

CallRecord(o, version, ip_address, quarantined) ==
    [op |-> "allocate_ip_address", result |-> o.result, kind |-> o.kind,
     version |-> version, requested |-> ip_address, row |-> o.row,
     quarantined |-> quarantined, port |-> "none"]

\* One allocate_ip_address call, run as one transaction.
AllocateIp(port, reuse_after, version, ip_address) ==
    \E o \in allocate_ip_address(ip_addresses, next_auto_assign_ip, Net,
                                 PortTenant[port], reuse_after, version,
                                 ip_address, now) :
        LET c == CommitWrites(ip_addresses, next_auto_assign_ip, o, port)
            q == Quarantined(ip_addresses, Net, o.row.address, reuse_after,
                             now) # {}
        IN  /\ ipam_calls < MaxCalls
            /\ ipam_calls' = ipam_calls + 1
            /\ o.row.address <= MaxAddr
            /\ IF o.result # "ok"
               THEN /\ ipam_last' = CallRecord(o, version, ip_address, FALSE)
                    /\ UNCHANGED <<ip_addresses, next_auto_assign_ip>>
               ELSE IF ~c.ok
               THEN /\ ipam_last' =
                          [CallRecord(o, version, ip_address, FALSE)
                               EXCEPT !.result = "IntegrityError"]
                    /\ UNCHANGED <<ip_addresses, next_auto_assign_ip>>
               ELSE /\ ip_addresses' = c.rows
                    /\ next_auto_assign_ip' = c.cursor
                    /\ ipam_last' = CallRecord(o, version, ip_address, q)
            /\ UNCHANGED <<subnet_policy, network_policy, now, pending>>
            /\ UNCHANGED macVars
            /\ UNCHANGED drvVars

\* Two allocate_ip_address calls interleaved: a call reads the tables and
\* decides what it will write ...
BeginAllocateIp(port, reuse_after, version, ip_address) ==
    \E o \in allocate_ip_address(ip_addresses, next_auto_assign_ip, Net,
                                 PortTenant[port], reuse_after, version,
                                 ip_address, now) :
        /\ pending[port] = Idle
        /\ ipam_calls < MaxCalls
        /\ ipam_calls' = ipam_calls + 1
        /\ o.row.address <= MaxAddr
        /\ IF o.result # "ok"
           THEN /\ ipam_last' = CallRecord(o, version, ip_address, FALSE)
                /\ UNCHANGED pending
           ELSE /\ pending' = [pending EXCEPT ![port] = o]
                /\ UNCHANGED ipam_last
        /\ UNCHANGED <<ip_addresses, next_auto_assign_ip, subnet_policy,
                       network_policy, now>>
        /\ UNCHANGED macVars
        /\ UNCHANGED drvVars

\* ... and later commits; allocate_ip_address does not catch the
\* constraint violation, which ends the call.
CommitAllocateIp(port) ==
    LET o == pending[port]
        c == CommitWrites(ip_addresses, next_auto_assign_ip, o, port)
    IN  /\ o # Idle
        /\ pending' = [pending EXCEPT ![port] = Idle]
        /\ ip_addresses' = c.rows
        /\ next_auto_assign_ip' = c.cursor
        /\ ipam_last' = [CallRecord(o, None, None, FALSE)
                            EXCEPT !.result = IF c.ok THEN "ok"
                                              ELSE "IntegrityError"]
        /\ UNCHANGED <<subnet_policy, network_policy, now, ipam_calls>>
        /\ UNCHANGED macVars
        /\ UNCHANGED drvVars

\* deallocate_ip_address releasing every address of the port.
DeallocateIp_all(port) ==
    /\ ipam_calls < MaxCalls
    /\ ipam_calls' = ipam_calls + 1
    /\ \E r \in ip_addresses : port \in r.ports
    /\ ip_addresses' =
          {[(IF port \in r.ports
             THEN set_deallocated(r, now) ELSE r)
            EXCEPT !.ports = @ \ {port}] : r \in ip_addresses}
    /\ ipam_last' = [NoCall EXCEPT !.op = "deallocate_ip_address",
                                   !.result = "ok", !.port = port]
    /\ UNCHANGED <<next_auto_assign_ip, subnet_policy, network_policy, now,
                   pending>>
    /\ UNCHANGED macVars
    /\ UNCHANGED drvVars

\* A second port is given an address that is in use (the plugin's port
\* operations); the address row is then referenced by both.
AssociateIp(port) ==
    /\ \E r \in ip_addresses :
          /\ ~r.deallocated
          /\ r.ports # {}
          /\ port \notin r.ports
          /\ ip_addresses' = Written(ip_addresses, Attach(r, port))
    /\ UNCHANGED <<next_auto_assign_ip, subnet_policy, network_policy, now,
                   ipam_last, ipam_calls, pending>>
    /\ UNCHANGED macVars
    /\ UNCHANGED drvVars

\* QuarkIpam.deallocate_ip_address(port): every address only this port
\* references is released; the port's address list is emptied.
DeallocateIp(port) ==
    /\ ipam_calls < MaxCalls
    /\ ipam_calls' = ipam_calls + 1
    /\ \E r \in ip_addresses : port \in r.ports
    /\ ip_addresses' =
          {[(IF port \in r.ports /\ Cardinality(r.ports) = 1
             THEN set_deallocated(r, now) ELSE r)
            EXCEPT !.ports = @ \ {port}] : r \in ip_addresses}
    /\ ipam_last' = [NoCall EXCEPT !.op = "deallocate_ip_address",
                                   !.result = "ok", !.port = port]
    /\ UNCHANGED <<next_auto_assign_ip, subnet_policy, network_policy, now,
                   pending>>
    /\ UNCHANGED macVars
    /\ UNCHANGED drvVars

(***************************************************************************)
(* MAC addresses: one range, allocate_mac_address and                      *)
(* deallocate_mac_address.  The queries follow the same contract as the    *)
(* address queries above.                                                  *)
(***************************************************************************)
\* Largest MAC value a cursor or a row may hold.
MaxMac == 4
\* Number of MAC allocator calls in a run.
MaxMacCalls == 4
\* The number of addresses of the range: 1 << (48 - mask).
MacMaskSize == 2
Tenants == {"t1", "t2"}

\* mac_address_ranges._to_mac_range: first_address is the prefix,
\* last_address is the prefix plus the size of the mask.
_to_mac_range(prefix_int, mask_size) ==
    [first_address |-> prefix_int, last_address |-> prefix_int + mask_size]

\* create_mac_address_range with the cursor one past first_address.
create_mac_address_range_past(first_address, last_address) ==
    [id |-> "r1", first_address |-> first_address,
     last_address |-> last_address, next_auto_assign_mac |-> first_address + 1]

\* mac_address_ranges.create_mac_address_range: the cursor starts at
\* first_address.
create_mac_address_range(first_address, last_address) ==
    [id |-> "r1", first_address |-> first_address,
     last_address |-> last_address, next_auto_assign_mac |-> first_address]

\* The range of the model, as created.
MacRange ==
    create_mac_address_range(_to_mac_range(1, MacMaskSize).first_address,
                             _to_mac_range(1, MacMaskSize).last_address)

\* Addresses callers ask for by value.
RequestedMacs == {2}

\* db_api.mac_address_find(reuse_after=, address=, scope=ONE): the released
\* rows whose quarantine is over.
mac_address_find_reusable(rows, reuse_after, address, t) ==
    {r \in rows : /\ r.deallocated
                  /\ r.deallocated_at + reuse_after <= t
                  /\ (address # None => r.address = address)}

\* db_api.mac_address_find(tenant_id=, address=, scope=ONE)
mac_address_find(rows, tenant_id, address) ==
    {r \in rows : r.tenant_id = tenant_id /\ r.address = address}

\* db_api.mac_address_range_find_allocation_counts: the range's count of
\* allocated addresses.
addr_count(rows) == Cardinality({r \in rows : ~r.deallocated})

\* The loop of allocate_mac_address (lines 93-99): from the cursor c on, the
\* first value no row of this tenant holds.
RECURSIVE next_free_mac(_, _, _)
next_free_mac(rows, tenant_id, c) ==
    IF c > MaxMac THEN c
    ELSE IF mac_address_find(rows, tenant_id, c) # {}
    THEN next_free_mac(rows, tenant_id, c + 1)
    ELSE c

\* A row's id: its tenant, its address, and how many rows of that tenant
\* and address came before it.
NoMac == [id |-> <<"none", None, 0>>, address |-> None, tenant_id |-> "none",
          deallocated |-> FALSE, deallocated_at |-> None]

\* allocate_mac_address whose reclaim clears the flag but keeps the
\* release timestamp on the row.
allocate_mac_address_keeps_timestamp(rows, cursor, tenant_id, reuse_after, mac_address, t) ==
    LET deallocated_mac == mac_address_find_reusable(rows, reuse_after,
                                                     mac_address, t)
        next_address == IF mac_address # None THEN mac_address
                        ELSE next_free_mac(rows, tenant_id, cursor)
    IN  IF deallocated_mac # {}
        THEN {[result |-> "ok", kind |-> "reclaim",
               row |-> [r EXCEPT !.deallocated = FALSE],
               cursor |-> cursor] : r \in deallocated_mac}
        ELSE IF MacRange.last_address - MacRange.first_address
                    <= addr_count(rows)
        THEN {[result |-> "MacAddressGenerationFailure", kind |-> "none",
               row |-> NoMac, cursor |-> cursor]}
        ELSE {[result |-> "ok",
               kind |-> IF mac_address # None THEN "requested"
                        ELSE "sequential",
               row |-> [id |-> <<tenant_id, next_address,
                                 Cardinality(mac_address_find(
                                     rows, tenant_id, next_address))>>,
                        address |-> next_address, tenant_id |-> tenant_id,
                        deallocated |-> FALSE, deallocated_at |-> None],
               cursor |-> IF mac_address # None THEN cursor
                          ELSE next_address + 1]}

\* QuarkIpam.allocate_mac_address up to its write: the outcomes of the call,
\* each with the row it would return and the cursor it would leave.
allocate_mac_address(rows, cursor, tenant_id, reuse_after, mac_address, t) ==
    LET deallocated_mac == mac_address_find_reusable(rows, reuse_after,
                                                     mac_address, t)
        next_address == IF mac_address # None THEN mac_address
                        ELSE next_free_mac(rows, tenant_id, cursor)
    IN  IF deallocated_mac # {}
        THEN {[result |-> "ok", kind |-> "reclaim",
               row |-> [r EXCEPT !.deallocated = FALSE,
                                 !.deallocated_at = None],
               cursor |-> cursor] : r \in deallocated_mac}
        ELSE IF MacRange.last_address - MacRange.first_address
                    <= addr_count(rows)
        THEN {[result |-> "MacAddressGenerationFailure", kind |-> "none",
               row |-> NoMac, cursor |-> cursor]}
        ELSE {[result |-> "ok",
               kind |-> IF mac_address # None THEN "requested"
                        ELSE "sequential",
               row |-> [id |-> <<tenant_id, next_address,
                                 Cardinality(mac_address_find(
                                     rows, tenant_id, next_address))>>,
                        address |-> next_address, tenant_id |-> tenant_id,
                        deallocated |-> FALSE, deallocated_at |-> None],
               cursor |-> IF mac_address # None THEN cursor
                          ELSE next_address + 1]}

\* A store without the uniqueness rule for MACs.
MacUniqueViolation_off(rows, r) == FALSE

\* The uniqueness of an address among the allocated rows of the range.
MacUniqueViolation(rows, r) ==
    \E q \in rows : q.id # r.id /\ q.address = r.address /\ ~q.deallocated

\* The released rows holding MAC a that are still in quarantine for a call
\* made at time t with reuse_after.
MacQuarantined(rows, a, reuse_after, t) ==
    {r \in rows : /\ r.address = a
                  /\ r.deallocated /\ t - r.deallocated_at < reuse_after}

MacCall(op, requested, kind, result, address, quarantined) ==
    [op |-> op, requested |-> requested, kind |-> kind, result |-> result,
     address |-> address, quarantined |-> quarantined]

\* One allocate_mac_address call, run as one transaction.
AllocateMacCall(tenant_id, reuse_after, mac_address) ==
    \E o \in allocate_mac_address(mac_addresses, next_auto_assign_mac,
                                  tenant_id, reuse_after, mac_address, now) :
        /\ o.row.address <= MaxMac
        /\ IF o.result # "ok"
           THEN /\ mac_log' = Append(mac_log,
                                     MacCall("allocate_mac_address",
                                             mac_address, o.kind, o.result,
                                             None, FALSE))
                /\ UNCHANGED <<mac_addresses, next_auto_assign_mac>>
           ELSE IF MacUniqueViolation(mac_addresses, o.row)
           THEN /\ mac_log' = Append(mac_log,
                                     MacCall("allocate_mac_address",
                                             mac_address, o.kind,
                                             "IntegrityError", None, FALSE))
                /\ UNCHANGED <<mac_addresses, next_auto_assign_mac>>
           ELSE /\ mac_addresses' =
                      {q \in mac_addresses : q.id # o.row.id} \cup {o.row}
                /\ next_auto_assign_mac' = o.cursor
                /\ mac_log' = Append(mac_log,
                                     MacCall("allocate_mac_address",
                                             mac_address, o.kind, "ok",
                                             o.row.address,
                                             MacQuarantined(
                                                 mac_addresses, o.row.address,
                                                 reuse_after, now) # {}))
        /\ UNCHANGED <<ip_addresses, next_auto_assign_ip, subnet_policy,
                       network_policy, now, ipam_last, ipam_calls, pending>>
        /\ UNCHANGED drvVars

\* QuarkIpam.deallocate_mac_address(address): NotFound without a row for
\* the address; else the row (any one, scope=ONE) is marked released now.
DeallocateMacCall(address) ==
    LET mac == {r \in mac_addresses : r.address = address}
    IN  /\ IF mac = {}
           THEN /\ mac_log' = Append(mac_log,
                                     MacCall("deallocate_mac_address",
                                             address, "none", "NotFound",
                                             None, FALSE))
                /\ UNCHANGED mac_addresses
           ELSE \E r \in mac :
                   /\ mac_addresses' =
                          (mac_addresses \ {r}) \cup
                              {[r EXCEPT !.deallocated = TRUE,
                                         !.deallocated_at = now]}
                   /\ mac_log' = Append(mac_log,
                                        MacCall("deallocate_mac_address",
                                                address, "none", "ok",
                                                address, FALSE))
        /\ UNCHANGED <<ip_addresses, next_auto_assign_ip, subnet_policy,
                       network_policy, now, ipam_last, ipam_calls, pending,
                       next_auto_assign_mac>>
        /\ UNCHANGED drvVars

\* The calls of a run that makes at most MaxMacCalls of them.
AllocateMac(tenant_id, reuse_after, mac_address) ==
    Len(mac_log) < MaxMacCalls /\ AllocateMacCall(tenant_id, reuse_after, mac_address)

DeallocateMac(address) ==
    Len(mac_log) < MaxMacCalls /\ DeallocateMacCall(address)

\* The MAC range as created: the cursor where create_mac_address_range put
\* it, no MAC rows.
MacIdle ==
    /\ mac_addresses = {}
    /\ next_auto_assign_mac = MacRange.next_auto_assign_mac
    /\ mac_log = <<>>

\* Time passes.
Tick ==
    /\ now < MaxTime
    /\ now' = now + 1
    /\ UNCHANGED <<ip_addresses, next_auto_assign_ip, subnet_policy,
                   network_policy, ipam_last, ipam_calls, pending>>
    /\ UNCHANGED macVars
    /\ UNCHANGED drvVars

\* The callers of create_port that run concurrently, and a caller that is
\* not inside create_port.
Callers == {"c1", "c2"}
NotPlacing == [network_id |-> "none", open |-> {}, details |-> {},
               chosen |-> None, network_name |-> "none", count |-> None]

\* A request that is not inside limits_checked.
NoScope == [state |-> "out", orig |-> {}]

\* The driver's state while only the allocator runs.
DrvIdle ==
    /\ strategy = "baseline"
    /\ limits = [max_ports_per_switch |-> 0, max_rules_per_group |-> 0,
                 max_rules_per_port |-> 0]
    /\ nvp_lswitches = {}
    /\ nvp_lports = {}
    /\ nvp_profiles = {}
    /\ LSwitch = {}
    /\ LSwitchPort = {}
    /\ SecurityProfile = {}
    /\ next_uuid = 0
    /\ networks = [n \in {"n1", "n2"} |-> "absent"]
    /\ drv_last = [op |-> "none", result |-> "none", switch |-> None,
                   count |-> None, log |-> <<>>]
    /\ placing = [c \in Callers |-> NotPlacing]
    /\ orig_limits = [c \in Callers |-> NoScope]

\* Subnets as created: the cursor at the CIDR's base, no address rows.
InitIpam ==
    /\ ip_addresses = {}
    /\ next_auto_assign_ip = [s \in {"s1"} |-> Subnets[s].cidr.address]
    /\ subnet_policy \in [SubnetIds -> SubnetPolicyChoices]
    /\ subnet_policy["s2"] = NoPolicy
    /\ network_policy \in NetworkPolicyChoices
    /\ now = 0
    /\ ipam_last = NoCall
    /\ ipam_calls = 0
    /\ pending = [p \in Ports |-> Idle]
    /\ MacIdle
    /\ DrvIdle

NextIpam ==
    \/ \E port \in Ports, reuse_after \in 0..MaxReuseAfter,
          version \in {None, 4}, ip_address \in {None} \cup RequestedIps :
          AllocateIp(port, reuse_after, version, ip_address)
    \/ \E port \in Ports : DeallocateIp(port)
    \/ Tick

SpecIpam == InitIpam /\ [][NextIpam]_vars

\* The allocator under concurrent callers: each port's allocation is a
\* transaction of its own, which reads and later commits; the clock stands
\* still meanwhile.
NextIpamConc ==
    \/ \E port \in Ports, reuse_after \in 0..MaxReuseAfter,
          ip_address \in {None, 1} :
          BeginAllocateIp(port, reuse_after, None, ip_address)
    \/ \E port \in Ports : CommitAllocateIp(port)
    \/ \E port \in Ports : DeallocateIp(port)

SpecIpamConc == InitIpam /\ [][NextIpamConc]_vars

(***************************************************************************)
(* Claims about the allocator.                                             *)
(***************************************************************************)
Succeeded == ipam_last.op = "allocate_ip_address" /\ ipam_last.result = "ok"

\* C1: every address a successful allocate_ip_address returns lies inside
\* the CIDR of the subnet it is recorded against and outside that subnet's
\* exclusion set.
C1_InsideCidrOutsideExclusion ==
    Succeeded =>
        /\ ipam_last.row.address \in Block(Subnets[ipam_last.row.subnet_id].cidr)
        /\ ipam_last.row.address \notin
               get_ip_policy_rule_set(ipam_last.row.subnet_id)

C3_NotReturnedInQuarantine == Succeeded => ~ipam_last.quarantined

(***************************************************************************)
(* The NVP driver.  The controller holds the logical switches, ports and   *)
(* security profiles; OptimizedNVPDriver mirrors them in local tables.     *)
(* A driver operation runs inside the caller's database transaction: when  *)
(* it raises, its local writes are rolled back, and what the controller    *)
(* already did stays done.                                                 *)
(***************************************************************************)
\* uuids the controller hands out in a run.
MaxUuid == 5

Networks == {"n1", "n2"}
\* Python's False as the value of a limit (limits_checked).
LimitOff == None
\* limit == 0, which False satisfies as well.
IsZero(limit) == limit = 0 \/ limit = LimitOff

NoDrvCall == [op |-> "none", result |-> "none", switch |-> None,
              count |-> None, log |-> <<>>]

\* One entry of an operation's log: a controller call (kind "remote", with
\* whether it returned successfully) or a write to a local table.
Ev(kind, act, obj, id, ok) ==
    [kind |-> kind, act |-> act, obj |-> obj, id |-> id, ok |-> ok]

\* What an operation has done so far: the controller's objects, the local
\* tables as the transaction sees them, the controller calls made, the log,
\* and what the steps hand to one another (the switch's uuid, the profiles'
\* uuids, a port count).  The driver's methods below take the set of states
\* the operation may be in and give the set it may be in afterwards.
World ==
    [result |-> "ok", calls |-> 0, log |-> <<>>, ret |-> None,
     profiles |-> {}, count |-> None,
     nvp_lswitches |-> nvp_lswitches, nvp_lports |-> nvp_lports,
     nvp_profiles |-> nvp_profiles, LSwitch |-> LSwitch,
     LSwitchPort |-> LSwitchPort, SecurityProfile |-> SecurityProfile]

Raise(w, error) == IF w.result # "ok" THEN w ELSE [w EXCEPT !.result = error]

\* A controller call that changes an object: it fails when it is the call
\* the run lets fail (the fail-th), or when the object it names is unknown
\* to the controller.  An operation that has raised makes no more calls.
RemoteCall(w, fail, act, obj, id, known) ==
    LET n == w.calls + 1
        ok == n # fail /\ known
    IN  IF w.result # "ok" THEN w
        ELSE [w EXCEPT !.calls = n,
                       !.log = Append(@, Ev("remote", act, obj, id, ok)),
                       !.result = IF n = fail THEN "RemoteError"
                                  ELSE IF ~known THEN "NotFound" ELSE "ok"]

\* A write to a local table, logged.
LocalWrite(w, act, obj, id) ==
    [w EXCEPT !.log = Append(@, Ev("local", act, obj, id, TRUE))]

\* LogicalSwitchStatus.lport_count
lport_count(lports, uuid) == Cardinality({p \in lports : p.lswitch = uuid})

\* NVPDriver._lswitches_for_network: the controller's switches tagged with
\* the network.
NVP_lswitches_for_network(switches, network_id) ==
    {s \in switches : s.network_id = network_id}

\* _lswitch_select_open with count <= limit in place of <.
NVP_lswitch_select_open_le(switches, lports, limit) ==
    {res.uuid : res \in {s \in switches :
                            IsZero(limit) \/ lport_count(lports, s.uuid) <= limit}}

\* NVPDriver._lswitch_select_open: a queried switch with ports available.
NVP_lswitch_select_open(switches, lports, limit) ==
    {res.uuid : res \in {s \in switches :
                            IsZero(limit) \/ lport_count(lports, s.uuid) < limit}}

\* NVPDriver._get_network_details: the name of the first queried switch.
NVP_get_network_details(switches) == {res.display_name : res \in switches}

\* OptimizedNVPDriver._lswitch_select_first: the filter on network_id is
\* built and dropped (line 113), the first row of the whole table is taken.
Opt_lswitch_select_first(local, network_id) == local

\* _lswitch_select_free with port_count <= limit in place of <.
Opt_lswitch_select_free_le(local, network_id, limit) ==
    LET free == {s \in local : s.port_count <= limit
                               /\ s.network_id = network_id}
    IN  {s \in free : \A q \in free : s.port_count <= q.port_count}

\* OptimizedNVPDriver._lswitch_select_free: the least loaded switch of the
\* network with port_count below the limit.
Opt_lswitch_select_free(local, network_id, limit) ==
    LET free == {s \in local : s.port_count < limit
                               /\ s.network_id = network_id}
    IN  {s \in free : \A q \in free : s.port_count <= q.port_count}

\* OptimizedNVPDriver._lswitch_select_open
Opt_lswitch_select_open(local, network_id, limit) ==
    {switch.nvp_id : switch \in
        IF IsZero(limit) THEN Opt_lswitch_select_first(local, network_id)
        ELSE Opt_lswitch_select_free(local, network_id, limit)}

\* OptimizedNVPDriver._get_network_details
Opt_get_network_details(local, network_id) ==
    {switch.display_name : switch \in Opt_lswitch_select_first(local, network_id)}

\* NVPDriver._lswitch_create: the controller creates the switch.
NVP_lswitch_create(W, fail, uuid, network_id, network_name) ==
    {IF r.result # "ok" THEN r
     ELSE [r EXCEPT !.nvp_lswitches =
               @ \cup {[uuid |-> uuid, network_id |-> network_id,
                        display_name |-> network_name]},
                    !.ret = uuid]
       : r \in {RemoteCall(w, fail, "create", "lswitch", uuid, TRUE) : w \in W}}

\* _lswitch_create with the local row written before the parent's call.
Opt_lswitch_create_local_first(W, fail, uuid, network_id, network_name) ==
    NVP_lswitch_create(
        {IF w.result # "ok" THEN w
         ELSE LocalWrite([w EXCEPT !.LSwitch =
                             @ \cup {[nvp_id |-> uuid,
                                      network_id |-> network_id,
                                      port_count |-> 0,
                                      display_name |-> network_name]}],
                         "insert", "lswitch", uuid) : w \in W},
        fail, uuid, network_id, network_name)

\* OptimizedNVPDriver._lswitch_create and _lswitch_create_optimized: the
\* parent's call, then the local row with port_count = 0.
Opt_lswitch_create(W, fail, uuid, network_id, network_name) ==
    {IF r.result # "ok" THEN r
     ELSE LocalWrite([r EXCEPT !.LSwitch =
                         @ \cup {[nvp_id |-> uuid, network_id |-> network_id,
                                  port_count |-> 0,
                                  display_name |-> network_name]}],
                     "insert", "lswitch", uuid)
       : r \in NVP_lswitch_create(W, fail, uuid, network_id, network_name)}

\* NVPDriver._lswitch_delete: the controller deletes the switch, and the
\* ports on it with it.
NVP_lswitch_delete(W, fail, uuid) ==
    {IF r.result # "ok" THEN r
     ELSE [r EXCEPT !.nvp_lswitches = {s \in @ : s.uuid # uuid},
                    !.nvp_lports = {p \in @ : p.lswitch # uuid}]
       : r \in {RemoteCall(w, fail, "delete", "lswitch", uuid,
                           \E s \in w.nvp_lswitches : s.uuid = uuid) : w \in W}}

\* _lswitch_delete with the row deleted before the parent's call.
Opt_lswitch_delete_local_first(W, fail, uuid) ==
    NVP_lswitch_delete(
        {IF w.result # "ok" THEN w
         ELSE IF ~\E s \in w.LSwitch : s.nvp_id = uuid
         THEN Raise(w, "UnmappedInstanceError")
         ELSE LocalWrite([w EXCEPT !.LSwitch = {s \in @ : s.nvp_id # uuid}],
                         "delete", "lswitch", uuid) : w \in W},
        fail, uuid)

\* OptimizedNVPDriver._lswitch_delete: look the row up, have the parent
\* delete the switch on the controller, delete the row.
Opt_lswitch_delete(W, fail, uuid) ==
    {IF r.result # "ok" THEN r
     ELSE IF ~\E s \in r.LSwitch : s.nvp_id = uuid
     THEN Raise(r, "UnmappedInstanceError")
     ELSE LocalWrite([r EXCEPT !.LSwitch = {s \in @ : s.nvp_id # uuid}],
                     "delete", "lswitch", uuid)
       : r \in NVP_lswitch_delete(W, fail, uuid)}

lswitch_delete(W, fail, uuid) ==
    IF strategy = "optimized" THEN Opt_lswitch_delete(W, fail, uuid)
    ELSE NVP_lswitch_delete(W, fail, uuid)

lswitch_create(W, fail, uuid, network_id, network_name) ==
    IF strategy = "optimized"
    THEN Opt_lswitch_create(W, fail, uuid, network_id, network_name)
    ELSE NVP_lswitch_create(W, fail, uuid, network_id, network_name)

(***************************************************************************)
(* Security profiles and the rule quotas.                                  *)
(***************************************************************************)
GroupIds == {"g1", "g2"}

\* NVPDriver._get_security_group: the controller's profiles tagged with the
\* group; exactly one is expected.
NVP_get_security_group(profiles, group_id) ==
    {q \in profiles : q.group_id = group_id}

RuleCount(group) ==
    Len(group.logical_port_ingress_rules) + Len(group.logical_port_egress_rules)

\* NVPDriver._check_rule_count_for_groups
RECURSIVE _check_rule_count_for_groups(_)
_check_rule_count_for_groups(groups) ==
    IF groups = {} THEN 0
    ELSE LET group == CHOOSE g \in groups : TRUE
         IN  RuleCount(group) + _check_rule_count_for_groups(groups \ {group})

\* _get_security_groups_for_port without the test against the limit.
NVP_get_security_groups_for_port_unchecked(W, groups, limit) ==
    {IF w.result # "ok" THEN w
     ELSE IF \E g \in groups :
            Cardinality(NVP_get_security_group(w.nvp_profiles, g)) # 1
     THEN Raise(w, "SecurityGroupNotFound")
     ELSE [w EXCEPT !.profiles = {q.uuid : q \in {x \in w.nvp_profiles :
                                                     x.group_id \in groups}},
                    !.count = IF limit = LimitOff THEN @
                              ELSE _check_rule_count_for_groups(
                                       {q \in w.nvp_profiles :
                                           q.group_id \in groups})]
       : w \in W}

\* NVPDriver._get_security_groups_for_port: the groups' profiles are read,
\* their rules counted against max_rules_per_port (count keeps the sum);
\* the profiles' uuids are the answer.
NVP_get_security_groups_for_port(W, groups, limit) ==
    {IF w.result # "ok" THEN w
     ELSE IF \E g \in groups :
            Cardinality(NVP_get_security_group(w.nvp_profiles, g)) # 1
     THEN Raise(w, "SecurityGroupNotFound")
     ELSE IF /\ limit # LimitOff
             /\ _check_rule_count_for_groups(
                    {q \in w.nvp_profiles : q.group_id \in groups}) > limit
     THEN Raise([w EXCEPT !.count = _check_rule_count_for_groups(
                                       {q \in w.nvp_profiles :
                                           q.group_id \in groups})],
                "DriverLimitReached")
     ELSE [w EXCEPT !.profiles = {q.uuid : q \in {x \in w.nvp_profiles :
                                                     x.group_id \in groups}},
                    !.count = IF limit = LimitOff THEN @
                              ELSE _check_rule_count_for_groups(
                                       {q \in w.nvp_profiles :
                                           q.group_id \in groups})]
       : w \in W}

(***************************************************************************)
(* Ports.                                                                  *)
(***************************************************************************)
\* NVPDriver._create_or_choose_lswitch.  open and details are what
\* _lswitch_select_open and _get_network_details of the driver in use
\* answer; chosen and network_name are the ones taken of them.
_create_or_choose_lswitch(W, fail, network_id, open, details, chosen, network_name, uuid) ==
    IF open # {} THEN {[w EXCEPT !.ret = chosen] : w \in W}
    ELSE IF details = {} THEN {Raise(w, "BadNVPState") : w \in W}
    ELSE lswitch_create(W, fail, uuid, network_id, network_name)

\* NVPDriver.create_port: choose or create the switch, check the groups,
\* create the port on the controller.
NVP_create_port(W, fail, network_id, security_groups, open, details, chosen, network_name, sw_uuid, lp_uuid) ==
    {IF c.result # "ok" THEN c
     ELSE [c EXCEPT !.nvp_lports =
               @ \cup {[uuid |-> lp_uuid, lswitch |-> c.ret,
                        network_id |-> network_id,
                        security_profiles |-> c.profiles]}]
       : c \in {RemoteCall(b, fail, "create", "lport", lp_uuid,
                           \E s \in b.nvp_lswitches : s.uuid = b.ret)
                  : b \in NVP_get_security_groups_for_port(
                              _create_or_choose_lswitch(
                                  W, fail, network_id, open, details, chosen,
                                  network_name, sw_uuid),
                              security_groups, limits.max_rules_per_port)}}

\* OptimizedNVPDriver.create_port: the parent's create_port, then the port
\* row, then the switch row's port_count.
Opt_create_port(W, fail, network_id, security_groups, open, details, chosen, network_name, sw_uuid, lp_uuid) ==
    {IF r.result # "ok" THEN r
     ELSE IF ~\E s \in r.LSwitch : s.nvp_id = r.ret
     THEN Raise(r, "AttributeError")
     ELSE LocalWrite(
              LocalWrite(
                  [r EXCEPT
                     !.LSwitchPort = @ \cup {[port_id |-> lp_uuid,
                                              switch_id |-> r.ret]},
                     !.LSwitch = {IF s.nvp_id = r.ret
                                  THEN [s EXCEPT !.port_count = @ + 1]
                                  ELSE s : s \in @}],
                  "insert", "lport", lp_uuid),
              "count", "lport", lp_uuid)
       : r \in NVP_create_port(W, fail, network_id, security_groups, open,
                               details, chosen, network_name, sw_uuid,
                               lp_uuid)}

\* NVPDriver.delete_port: the switch is the one given or, if none is, the
\* one the controller reports for the port; the controller deletes the port.
NVP_delete_port(W, fail, port_id, lswitch_uuid) ==
    {IF r.result # "ok" THEN r
     ELSE [r EXCEPT !.nvp_lports = {p \in @ : p.uuid # port_id}]
       : r \in {IF /\ lswitch_uuid = None
                   /\ Cardinality({p \in w.nvp_lports : p.uuid = port_id}) # 1
                THEN Raise(w, "Exception")
                ELSE RemoteCall(w, fail, "delete", "lport", port_id,
                                \E p \in w.nvp_lports :
                                    /\ p.uuid = port_id
                                    /\ lswitch_uuid # None
                                         => p.lswitch = lswitch_uuid)
                  : w \in W}}

\* The rows OptimizedNVPDriver.delete_port works on: the port's and, through
\* LSwitchPort.switch, its switch's.
PortSwitch(w, port_id) ==
    {s \in w.LSwitch : \E p \in w.LSwitchPort : /\ p.port_id = port_id
                                                /\ p.switch_id = s.nvp_id}

\* OptimizedNVPDriver.delete_port up to the test of port_count: the parent
\* deletes the port on the controller, the port row is deleted, port_count
\* lowered.
Opt_delete_port_row(W, fail, port_id, switch_id) ==
    {IF r.result # "ok" THEN r
     ELSE LocalWrite(
              LocalWrite(
                  [r EXCEPT
                     !.LSwitchPort = {p \in @ : p.port_id # port_id},
                     !.LSwitch = {IF s.nvp_id = switch_id
                                  THEN [s EXCEPT !.port_count = @ - 1]
                                  ELSE s : s \in @},
                     !.ret = switch_id,
                     !.count = (CHOOSE s \in PortSwitch(r, port_id) : TRUE)
                                   .port_count - 1],
                  "delete", "lport", port_id),
              "count", "lport", port_id)
       : r \in NVP_delete_port(W, fail, port_id, switch_id)}

\* OptimizedNVPDriver.delete_port: a switch left with no port is deleted.
Opt_delete_port(W, fail, port_id, switch) ==
    IF switch = {} THEN {Raise(w, "AttributeError") : w \in W}
    ELSE LET sw == CHOOSE s \in switch : TRUE
         IN  IF sw.port_count - 1 = 0
             THEN Opt_lswitch_delete(
                      Opt_delete_port_row(W, fail, port_id, sw.nvp_id),
                      fail, sw.nvp_id)
             ELSE Opt_delete_port_row(W, fail, port_id, sw.nvp_id)

\* The loop of delete_network over the network's switches.
RECURSIVE delete_each(_, _, _, _)
delete_each(W, fail, order, i) ==
    IF i > Len(order) THEN W
    ELSE delete_each(lswitch_delete(W, fail, order[i]), fail, order, i + 1)

Orderings(S) ==
    {o \in [1..Cardinality(S) -> S] : \A i, j \in DOMAIN o : i # j => o[i] # o[j]}

\* The test left out.
OverGroupLimit_off(count) == FALSE

\* The test of create_security_group (lines 229-231) and of
\* update_security_group (lines 262-264) on a profile's rule count.
OverGroupLimit(count) ==
    /\ limits.max_rules_per_group # LimitOff
    /\ count > limits.max_rules_per_group

\* NVPDriver.create_security_group: the rule count is checked against
\* max_rules_per_group, the controller creates the profile.
NVP_create_security_group(W, fail, uuid, group_id, ingress_rules, egress_rules) ==
    {IF r.result # "ok" THEN r
     ELSE [r EXCEPT !.nvp_profiles =
               @ \cup {[uuid |-> uuid, group_id |-> group_id,
                        logical_port_ingress_rules |-> ingress_rules,
                        logical_port_egress_rules |-> egress_rules]}]
       : r \in {IF OverGroupLimit(Len(ingress_rules) + Len(egress_rules))
                THEN Raise([w EXCEPT !.count = Len(ingress_rules)
                                                 + Len(egress_rules)],
                           "DriverLimitReached")
                ELSE RemoteCall([w EXCEPT !.count = Len(ingress_rules)
                                                      + Len(egress_rules)],
                                fail, "create", "profile", uuid, TRUE)
                  : w \in W}}

\* OptimizedNVPDriver.create_security_group
Opt_create_security_group(W, fail, uuid, group_id, ingress_rules, egress_rules) ==
    {IF r.result # "ok" THEN r
     ELSE LocalWrite([r EXCEPT !.SecurityProfile =
                         @ \cup {[id |-> group_id, nvp_id |-> uuid]}],
                     "insert", "profile", uuid)
       : r \in NVP_create_security_group(W, fail, uuid, group_id,
                                         ingress_rules, egress_rules)}

\* NVPDriver.delete_security_group, given the profile uuids that
\* _get_security_group_id of the driver in use finds for the group.
NVP_delete_security_group(W, fail, guuids) ==
    {IF r.result # "ok" THEN r
     ELSE [r EXCEPT !.nvp_profiles = {q \in @ : q.uuid \notin guuids}]
       : r \in {IF Cardinality(guuids) # 1
                THEN Raise(w, "SecurityGroupNotFound")
                ELSE RemoteCall(w, fail, "delete", "profile",
                                CHOOSE u \in guuids : TRUE,
                                \E q \in w.nvp_profiles : q.uuid \in guuids)
                  : w \in W}}

\* OptimizedNVPDriver.delete_security_group: the uuid comes from the local
\* row (_get_security_group_id, line 181), which is deleted afterwards.
Opt_delete_security_group(W, fail, group_id, group) ==
    IF group = {} THEN {Raise(w, "AttributeError") : w \in W}
    ELSE {IF r.result # "ok" THEN r
          ELSE LocalWrite([r EXCEPT !.SecurityProfile =
                              {q \in @ : q.id # group_id}],
                          "delete", "profile",
                          (CHOOSE q \in group : TRUE).nvp_id)
            : r \in NVP_delete_security_group(
                        W, fail, {(CHOOSE q \in group : TRUE).nvp_id})}

\* A keyword argument that the caller leaves out.
NotGiven == <<"not given">>

\* update_security_group between the query and the controller call: the
\* group is looked up, the lists default to the profile's, the count is
\* checked against max_rules_per_group.
update_checked(w, fail, group_id, port_ingress_rules, port_egress_rules) ==
    LET query == NVP_get_security_group(w.nvp_profiles, group_id)
        q == CHOOSE x \in query : TRUE
        ingress_rules == IF port_ingress_rules = NotGiven
                         THEN q.logical_port_ingress_rules
                         ELSE port_ingress_rules
        egress_rules == IF port_egress_rules = NotGiven
                        THEN q.logical_port_egress_rules
                        ELSE port_egress_rules
        count == Len(ingress_rules) + Len(egress_rules)
    IN  IF w.result # "ok" THEN w
        ELSE IF Cardinality(query) # 1 THEN Raise(w, "SecurityGroupNotFound")
        ELSE IF OverGroupLimit(count)
        THEN Raise([w EXCEPT !.count = count], "DriverLimitReached")
        ELSE RemoteCall([w EXCEPT !.count = count], fail, "update", "profile",
                        q.uuid, TRUE)

\* NVPDriver.update_security_group
NVP_update_security_group(W, fail, group_id, port_ingress_rules, port_egress_rules) ==
    {IF r.result # "ok" THEN r
     ELSE [r EXCEPT !.nvp_profiles =
               {IF q.group_id # group_id THEN q
                ELSE [q EXCEPT
                        !.logical_port_ingress_rules =
                            IF port_ingress_rules = NotGiven THEN @
                            ELSE port_ingress_rules,
                        !.logical_port_egress_rules =
                            IF port_egress_rules = NotGiven THEN @
                            ELSE port_egress_rules]
                  : q \in @}]
       : r \in {update_checked(w, fail, group_id, port_ingress_rules,
                               port_egress_rules) : w \in W}}

\* NVPDriver._check_rule_count_per_port: the rules of all the profiles on
\* the ports that carry the group's profile.
_check_rule_count_per_port(w, group_id) ==
    LET guuids == {q.uuid : q \in NVP_get_security_group(w.nvp_profiles,
                                                         group_id)}
        ports == {p \in w.nvp_lports : p.security_profiles \cap guuids # {}}
        groups == UNION {port.security_profiles : port \in ports}
    IN  _check_rule_count_for_groups({q \in w.nvp_profiles : q.uuid \in groups})

Range(list) == {list[i] : i \in DOMAIN list}

\* list.remove: the first occurrence goes.
remove(list, x) ==
    LET i == CHOOSE k \in DOMAIN list :
                 list[k] = x /\ \A j \in 1..(k - 1) : list[j] # x
    IN  [k \in 1..(Len(list) - 1) |-> IF k < i THEN list[k] ELSE list[k + 1]]

\* The checks of create_security_group_rule without the one for a rule that
\* is in the list already.
create_rule_errors_no_duplicate_check(w, group_id, rulelist, rule) ==
    IF /\ ~IsZero(limits.max_rules_per_port)
       /\ _check_rule_count_per_port(w, group_id) >= limits.max_rules_per_port
    THEN {"DriverLimitReached"} ELSE {}

\* What the checks of create_security_group_rule raise: the rule is in the
\* list already, or check_ports finds the ports' rules at the limit.  The
\* checks are the keys of a dict, so either may come first.
create_rule_errors(w, group_id, rulelist, rule) ==
    (IF rule \in Range(rulelist) THEN {"SecurityGroupRuleExists"} ELSE {})
    \cup
    (IF /\ ~IsZero(limits.max_rules_per_port)
        /\ _check_rule_count_per_port(w, group_id)
             >= limits.max_rules_per_port
     THEN {"DriverLimitReached"} ELSE {})

\* _update_security_group_rules: the list of the rule's direction, changed,
\* goes to update_security_group.
update_rules(w, fail, group_id, direction, rulelist) ==
    NVP_update_security_group(
        {w}, fail, group_id,
        IF direction = "ingress" THEN rulelist ELSE NotGiven,
        IF direction = "egress" THEN rulelist ELSE NotGiven)

\* NVPDriver.create_security_group_rule
NVP_create_security_group_rule(W, fail, group_id, direction, rule) ==
    UNION {
      LET groupd == NVP_get_security_group(w.nvp_profiles, group_id)
          rulelist == (CHOOSE q \in groupd : TRUE)
                          ["logical_port_" \o direction \o "_rules"]
      IN  IF w.result # "ok" THEN {w}
          ELSE IF Cardinality(groupd) # 1
          THEN {Raise(w, "SecurityGroupNotFound")}
          ELSE IF create_rule_errors(w, group_id, rulelist, rule) # {}
          THEN {Raise(w, e) :
                  e \in create_rule_errors(w, group_id, rulelist, rule)}
          ELSE update_rules(w, fail, group_id, direction,
                            Append(rulelist, rule))
      : w \in W}

\* NVPDriver.delete_security_group_rule
NVP_delete_security_group_rule(W, fail, group_id, direction, rule) ==
    UNION {
      LET groupd == NVP_get_security_group(w.nvp_profiles, group_id)
          rulelist == (CHOOSE q \in groupd : TRUE)
                          ["logical_port_" \o direction \o "_rules"]
      IN  IF w.result # "ok" THEN {w}
          ELSE IF Cardinality(groupd) # 1
          THEN {Raise(w, "SecurityGroupNotFound")}
          ELSE IF rule \notin Range(rulelist)
          THEN {Raise(w, "SecurityGroupRuleNotFound")}
          ELSE update_rules(w, fail, group_id, direction,
                            remove(rulelist, rule))
      : w \in W}

\* NVPDriver.update_port: the port's switch is looked up, the groups are
\* checked, and the port is updated; an empty list of groups leaves the
\* port's profiles as they are.
NVP_update_port(W, fail, port_id, security_groups) ==
    {IF r.result # "ok" THEN r
     ELSE [r EXCEPT !.nvp_lports =
               {IF p.uuid = port_id /\ r.profiles # {}
                THEN [p EXCEPT !.security_profiles = r.profiles]
                ELSE p : p \in @}]
       : r \in {RemoteCall(b, fail, "update", "lport", port_id, TRUE)
                  : b \in NVP_get_security_groups_for_port(
                              {IF Cardinality({p \in w.nvp_lports :
                                                  p.uuid = port_id}) # 1
                               THEN Raise(w, "Exception")
                               ELSE w : w \in W},
                              security_groups, limits.max_rules_per_port)}}

(***************************************************************************)
(* The driver's operations as steps of the system.                         *)
(***************************************************************************)
Created(log) ==
    Cardinality({i \in DOMAIN log : /\ log[i].kind = "remote"
                                     /\ log[i].act = "create"
                                     /\ log[i].ok})

\* The operation ends: the controller keeps what it did; the local tables
\* keep the operation's writes unless it raised.
Settle(op, w) ==
    /\ nvp_lswitches' = w.nvp_lswitches
    /\ nvp_lports' = w.nvp_lports
    /\ nvp_profiles' = w.nvp_profiles
    /\ LSwitch' = IF w.result = "ok" THEN w.LSwitch ELSE LSwitch
    /\ LSwitchPort' = IF w.result = "ok" THEN w.LSwitchPort ELSE LSwitchPort
    /\ SecurityProfile' = IF w.result = "ok" THEN w.SecurityProfile
                          ELSE SecurityProfile
    /\ next_uuid' = next_uuid + Created(w.log)
    /\ drv_last' = [op |-> op, result |-> w.result, switch |-> w.ret,
                    count |-> w.count, log |-> w.log]
    /\ UNCHANGED <<strategy, limits>>
    /\ UNCHANGED ipamVars

\* ... and no create_port is under way beside it.
Finish(op, w) == Settle(op, w) /\ UNCHANGED <<placing, orig_limits>>

\* The plugin's create_network (networks.py, line 77): the driver creates
\* the network's first switch.
CreateNetwork(network_id, fail) ==
    /\ networks[network_id] = "absent"
    /\ next_uuid + 1 <= MaxUuid
    /\ \E w \in lswitch_create({World}, fail, next_uuid + 1, network_id,
                               network_id) :
          /\ Finish("create_network", w)
          /\ networks' = IF w.result = "ok"
                         THEN [networks EXCEPT ![network_id] = "active"]
                         ELSE networks

CreatePort(network_id, security_groups, fail) ==
    LET limit == limits.max_ports_per_switch
        switches == NVP_lswitches_for_network(nvp_lswitches, network_id)
        open == IF strategy = "optimized"
                THEN Opt_lswitch_select_open(LSwitch, network_id, limit)
                ELSE NVP_lswitch_select_open(switches, nvp_lports, limit)
        details == IF strategy = "optimized"
                   THEN Opt_get_network_details(LSwitch, network_id)
                   ELSE NVP_get_network_details(switches)
        sw_uuid == next_uuid + 1
        lp_uuid == IF open = {} THEN next_uuid + 2 ELSE next_uuid + 1
    IN  /\ networks[network_id] = "active"
        /\ next_uuid + 2 <= MaxUuid
        /\ \E chosen \in (IF open # {} THEN open ELSE {None}),
              network_name \in (IF open = {} /\ details # {} THEN details
                                ELSE {"none"}) :
              \E w \in (IF strategy = "optimized"
                        THEN Opt_create_port({World}, fail, network_id,
                                             security_groups, open, details,
                                             chosen, network_name, sw_uuid,
                                             lp_uuid)
                        ELSE NVP_create_port({World}, fail, network_id,
                                             security_groups, open, details,
                                             chosen, network_name, sw_uuid,
                                             lp_uuid)) :
                  Finish("create_port", w)
        /\ UNCHANGED networks

DeletePort(port_id, fail) ==
    /\ \E w \in (IF strategy = "optimized"
                 THEN Opt_delete_port({World}, fail, port_id,
                                      PortSwitch(World, port_id))
                 ELSE NVP_delete_port({World}, fail, port_id, None)) :
          Finish("delete_port", w)
    /\ UNCHANGED networks

\* The plugin's delete_network (networks.py, lines 196-204): a network
\* without ports has the driver delete its switches.
DeleteNetwork(network_id, fail) ==
    LET targets == IF strategy = "optimized"
                   THEN {s.nvp_id : s \in {q \in LSwitch :
                                              q.network_id = network_id}}
                   ELSE {s.uuid : s \in NVP_lswitches_for_network(
                                            nvp_lswitches, network_id)}
    IN  /\ networks[network_id] = "active"
        /\ ~\E p \in nvp_lports : p.network_id = network_id
        /\ ~\E p \in LSwitchPort : p.switch_id \in targets
        /\ \E order \in Orderings(targets) :
              \E w \in delete_each({World}, fail, order, 1) :
                  /\ Finish("delete_network", w)
                  /\ networks' = IF w.result = "ok"
                                 THEN [networks EXCEPT ![network_id] = "deleted"]
                                 ELSE networks

\* _lswitch_delete called again for the switch that the last operation
\* deleted (or tried to delete again); the controller answers the call.
DeleteSwitchAgain(uuid) ==
    /\ uuid = drv_last.switch
    /\ \/ /\ drv_last.op = "delete_port"
          /\ drv_last.result = "ok"
          /\ drv_last.count = 0
       \/ drv_last.op = "_lswitch_delete"
    /\ ~\E s \in nvp_lswitches : s.uuid = uuid
    /\ \E w \in lswitch_delete({[World EXCEPT !.ret = uuid]}, 0, uuid) :
          Finish("_lswitch_delete", w)
    /\ UNCHANGED networks

CreateSecurityGroup(group_id, ingress_rules, egress_rules, fail) ==
    /\ ~\E q \in nvp_profiles : q.group_id = group_id
    /\ next_uuid + 1 <= MaxUuid
    /\ \E w \in (IF strategy = "optimized"
                 THEN Opt_create_security_group({World}, fail, next_uuid + 1,
                                                group_id, ingress_rules,
                                                egress_rules)
                 ELSE NVP_create_security_group({World}, fail, next_uuid + 1,
                                                group_id, ingress_rules,
                                                egress_rules)) :
          Finish("create_security_group", w)
    /\ UNCHANGED networks

DeleteSecurityGroup(group_id, fail) ==
    /\ ~\E p \in nvp_lports, q \in nvp_profiles :
          q.group_id = group_id /\ q.uuid \in p.security_profiles
    /\ \E w \in (IF strategy = "optimized"
                 THEN Opt_delete_security_group(
                          {World}, fail, group_id,
                          {q \in SecurityProfile : q.id = group_id})
                 ELSE NVP_delete_security_group(
                          {World}, fail,
                          {q.uuid : q \in NVP_get_security_group(nvp_profiles,
                                                                 group_id)})) :
          Finish("delete_security_group", w)
    /\ UNCHANGED networks

\* The allocator's tables while only the driver runs.
IpamIdle ==
    /\ ip_addresses = {}
    /\ next_auto_assign_ip = [s \in {"s1"} |-> Subnets[s].cidr.address]
    /\ subnet_policy = [s \in SubnetIds |-> NoPolicy]
    /\ network_policy = NoPolicy
    /\ now = 0
    /\ ipam_last = NoCall
    /\ ipam_calls = 0
    /\ pending = [p \in Ports |-> Idle]
    /\ MacIdle

\* The driver as configured at start: no network yet, nothing on the
\* controller, empty local tables.
InitDriver ==
    /\ strategy \in {"baseline", "optimized"}
    /\ limits \in [max_ports_per_switch : {0, 1, 2},
                   max_rules_per_group : {2}, max_rules_per_port : {2}]
    /\ nvp_lswitches = {}
    /\ nvp_lports = {}
    /\ nvp_profiles = {}
    /\ LSwitch = {}
    /\ LSwitchPort = {}
    /\ SecurityProfile = {}
    /\ next_uuid = 0
    /\ networks = [n \in Networks |-> "absent"]
    /\ drv_last = NoDrvCall
    /\ placing = [c \in Callers |-> NotPlacing]
    /\ orig_limits = [c \in Callers |-> NoScope]
    /\ IpamIdle

\* Switch placement: networks and ports come and go, controller calls may
\* fail.
NextDriver ==
    \/ \E n \in Networks, fail \in 0..1 : CreateNetwork(n, fail)
    \/ \E n \in Networks, fail \in 0..2 : CreatePort(n, {}, fail)
    \/ \E port_id \in 1..next_uuid, fail \in 0..2 : DeletePort(port_id, fail)
    \/ \E n \in Networks, fail \in 0..1 : DeleteNetwork(n, fail)
    \/ \E uuid \in 1..next_uuid : DeleteSwitchAgain(uuid)
    \/ \E g \in {"g1"}, fail \in 0..1 :
          CreateSecurityGroup(g, <<"r1">>, <<>>, fail)
    \/ \E g \in {"g1"}, fail \in 0..1 : DeleteSecurityGroup(g, fail)

SpecDriver == InitDriver /\ [][NextDriver]_vars

UpdateSecurityGroup(group_id, port_ingress_rules, port_egress_rules, fail) ==
    /\ \E w \in NVP_update_security_group({World}, fail, group_id,
                                          port_ingress_rules,
                                          port_egress_rules) :
          Finish("update_security_group", w)
    /\ UNCHANGED networks

CreateSecurityGroupRule(group_id, direction, rule, fail) ==
    /\ \E w \in NVP_create_security_group_rule({World}, fail, group_id,
                                               direction, rule) :
          Finish("create_security_group_rule", w)
    /\ UNCHANGED networks

DeleteSecurityGroupRule(group_id, direction, rule, fail) ==
    /\ \E w \in NVP_delete_security_group_rule({World}, fail, group_id,
                                               direction, rule) :
          Finish("delete_security_group_rule", w)
    /\ UNCHANGED networks

UpdatePort(port_id, security_groups, fail) ==
    /\ \E w \in NVP_update_port({World}, fail, port_id, security_groups) :
          Finish("update_port", w)
    /\ UNCHANGED networks

\* The rule lists that callers pass.
RuleLists == {<<>>, <<"r1">>, <<"r1", "r2", "r3">>}

\* The baseline driver with its rule quotas configured and no limit on the
\* ports of a switch; the network's first switch is on the controller.
InitSG ==
    /\ strategy = "baseline"
    /\ limits = [max_ports_per_switch |-> 0,
                 max_rules_per_group |-> 3, max_rules_per_port |-> 2]
    /\ nvp_lswitches = {[uuid |-> 1, network_id |-> "n1",
                         display_name |-> "n1"]}
    /\ nvp_lports = {}
    /\ nvp_profiles = {}
    /\ LSwitch = {}
    /\ LSwitchPort = {}
    /\ SecurityProfile = {}
    /\ next_uuid = 1
    /\ networks = [n \in Networks |-> IF n = "n1" THEN "active" ELSE "absent"]
    /\ drv_last = NoDrvCall
    /\ placing = [c \in Callers |-> NotPlacing]
    /\ orig_limits = [c \in Callers |-> NoScope]
    /\ IpamIdle

\* Security groups, their rules and the ports that carry them.
NextSG ==
    \/ \E groups \in SUBSET GroupIds : CreatePort("n1", groups, 0)
    \/ \E port_id \in 1..next_uuid, groups \in {{}, GroupIds} :
          UpdatePort(port_id, groups, 0)
    \/ \E g \in GroupIds, ingress_rules \in RuleLists,
          egress_rules \in {<<>>, <<"r1">>} :
          CreateSecurityGroup(g, ingress_rules, egress_rules, 0)
    \/ \E port_ingress_rules \in RuleLists :
          UpdateSecurityGroup("g1", port_ingress_rules, NotGiven, 0)
    \/ CreateSecurityGroupRule("g1", "ingress", "r2", 0)
    \/ DeleteSecurityGroupRule("g1", "ingress", "r2", 0)

SpecSG == InitSG /\ [][NextSG]_vars

(***************************************************************************)
(* Switch placement and the local mirror.                                  *)
(***************************************************************************)
\* C4: with max_ports_per_switch = N > 0, the port count of every switch
\* (LSwitch.port_count in the optimized strategy, the controller's
\* lport_count in the baseline strategy) is at most N.
C4_PortCountWithinCapacity ==
    limits.max_ports_per_switch > 0 =>
        /\ strategy = "optimized" =>
              \A s \in LSwitch : s.port_count <= limits.max_ports_per_switch
        /\ strategy = "baseline" =>
              \A s \in nvp_lswitches :
                  lport_count(nvp_lports, s.uuid) <= limits.max_ports_per_switch

\* A full switch, and a second switch of the same network that took the
\* next port.
C4_Witness ==
    /\ limits.max_ports_per_switch > 0
    /\ \E s, q \in LSwitch :
          /\ s # q
          /\ s.network_id = q.network_id
          /\ s.port_count = limits.max_ports_per_switch
          /\ q.port_count > 0

SwitchDeletes(log, kind, uuid) ==
    {i \in DOMAIN log : /\ log[i].kind = kind
                        /\ log[i].act = "delete"
                        /\ log[i].obj = "lswitch"
                        /\ log[i].id = uuid
                        /\ log[i].ok}

Mirrors(local, remote) ==
    /\ remote.kind = "remote"
    /\ remote.ok
    /\ remote.obj = local.obj
    /\ remote.id = local.id
    /\ remote.act = (IF local.act = "insert" THEN "create"
                     ELSE IF local.act = "delete" THEN "delete"
                     ELSE remote.act)
    /\ remote.act \in {"create", "delete"}

\* C8: in every optimized-strategy operation a local record is inserted,
\* deleted or has its port_count changed only after the controller call
\* that creates or deletes the same object has returned successfully.
C8_LocalAfterRemote ==
    strategy = "optimized" =>
        \A i \in DOMAIN drv_last.log :
            drv_last.log[i].kind = "local" =>
                \E j \in 1..(i - 1) : Mirrors(drv_last.log[i], drv_last.log[j])

\* A delete_port that went on to delete the switch and its row.
C8_Witness ==
    /\ strategy = "optimized"
    /\ drv_last.op = "delete_port"
    /\ \E i \in DOMAIN drv_last.log :
          /\ drv_last.log[i].kind = "local"
          /\ drv_last.log[i].act = "delete"
          /\ drv_last.log[i].obj = "lswitch"

\* C9: in the optimized strategy, when a controller call of a create_port
\* or delete_port fails, the operation has made no local write before it.
C9_NoLocalWriteBeforeFailure ==
    (/\ strategy = "optimized"
     /\ drv_last.op \in {"create_port", "delete_port"}) =>
        \A i \in DOMAIN drv_last.log :
            (drv_last.log[i].kind = "remote" /\ ~drv_last.log[i].ok) =>
                \A j \in 1..(i - 1) : drv_last.log[j].kind # "local"

\* C10: in the optimized strategy, after every operation that ends, a
\* switch or port is on the controller iff it has a local row, and each
\* LSwitch.port_count is the number of the switch's ports on the controller.
C10_MirrorAgreesWithController ==
    strategy = "optimized" =>
        /\ {s.uuid : s \in nvp_lswitches} = {s.nvp_id : s \in LSwitch}
        /\ {p.uuid : p \in nvp_lports} = {p.port_id : p \in LSwitchPort}
        /\ \A s \in LSwitch : s.port_count = lport_count(nvp_lports, s.nvp_id)

(***************************************************************************)
(* Rule quotas.                                                            *)
(***************************************************************************)
GroupOps == {"create_security_group", "update_security_group",
             "create_security_group_rule", "delete_security_group_rule"}

\* C6: with max_rules_per_group = L, every profile on the controller has at
\* most L rules; a create or update that asks for more than L fails with
\* DriverLimitReached, and one that asks for exactly L is accepted.
C6_GroupQuota ==
    limits.max_rules_per_group # LimitOff =>
        /\ \A q \in nvp_profiles : RuleCount(q) <= limits.max_rules_per_group
        /\ (drv_last.op \in GroupOps
              /\ drv_last.count > limits.max_rules_per_group) =>
                 drv_last.result = "DriverLimitReached"
        /\ (drv_last.op \in GroupOps
              /\ drv_last.count = limits.max_rules_per_group) =>
                 drv_last.result = "ok"

\* An update to exactly L rules, accepted.
C6_Witness ==
    /\ drv_last.op = "update_security_group"
    /\ drv_last.count = limits.max_rules_per_group
    /\ drv_last.result = "ok"
    /\ \E q \in nvp_profiles : RuleCount(q) = limits.max_rules_per_group

\* C7: with max_rules_per_port = P, the rules of all the profiles attached
\* to a port are at most P.
C7_PortQuota ==
    limits.max_rules_per_port # LimitOff =>
        \A p \in nvp_lports :
            _check_rule_count_for_groups(
                {q \in nvp_profiles : q.uuid \in p.security_profiles})
              <= limits.max_rules_per_port

(***************************************************************************)
(* Further claims about the allocator.                                     *)
(***************************************************************************)
\* C11: a sequential assignment whose commit hits the uniqueness constraint
\* is retried inside the call from the next candidate; the violation never
\* ends the call.
C11_ViolationRetried ==
    (ipam_last.op = "allocate_ip_address" /\ ipam_last.kind = "sequential")
        => ipam_last.result # "IntegrityError"

(***************************************************************************)
(* create_port under concurrent callers.  A call first selects an open     *)
(* switch (_lswitch_select_open, a read); the controller call and the      *)
(* local writes come later, with nothing held in between: neither driver   *)
(* takes a lock, and the LSwitch model has no version column or check      *)
(* constraint on port_count.                                               *)
(***************************************************************************)
\* create_port up to the answer of _lswitch_select_open and
\* _get_network_details; count is port_count of the row the call loaded.
BeginCreatePort(c, network_id) ==
    LET limit == limits.max_ports_per_switch
        switches == NVP_lswitches_for_network(nvp_lswitches, network_id)
        open == IF strategy = "optimized"
                THEN Opt_lswitch_select_open(LSwitch, network_id, limit)
                ELSE NVP_lswitch_select_open(switches, nvp_lports, limit)
        details == IF strategy = "optimized"
                   THEN Opt_get_network_details(LSwitch, network_id)
                   ELSE NVP_get_network_details(switches)
    IN  /\ placing[c] = NotPlacing
        /\ networks[network_id] = "active"
        /\ \E chosen \in (IF open # {} THEN open ELSE {None}),
              network_name \in (IF open = {} /\ details # {} THEN details
                                ELSE {"none"}) :
              placing' =
                  [placing EXCEPT ![c] =
                      [network_id |-> network_id, open |-> open,
                       details |-> details, chosen |-> chosen,
                       network_name |-> network_name,
                       count |-> IF strategy = "optimized" /\ chosen # None
                                 THEN (CHOOSE s \in LSwitch :
                                          s.nvp_id = chosen).port_count
                                 ELSE None]]
        /\ UNCHANGED <<strategy, limits, nvp_lswitches, nvp_lports,
                       nvp_profiles, LSwitch, LSwitchPort, SecurityProfile,
                       next_uuid, networks, drv_last, orig_limits>>
        /\ UNCHANGED ipamVars

\* switch.port_count = switch.port_count + 1 (optimized_nvp_driver.py, line
\* 54) in a call that selected its switch earlier: the row it increments is
\* either the one the tables hold now or the one it loaded when it selected.
port_count_written(w, p) ==
    IF strategy = "optimized" /\ w.result = "ok" /\ p.chosen # None
    THEN {w, [w EXCEPT !.LSwitch = {IF s.nvp_id = p.chosen
                                    THEN [s EXCEPT !.port_count = p.count + 1]
                                    ELSE s : s \in @}]}
    ELSE {w}

\* The rest of create_port, from _create_or_choose_lswitch's decision on.
CommitCreatePort(c) ==
    LET p == placing[c]
        sw_uuid == next_uuid + 1
        lp_uuid == IF p.open = {} THEN next_uuid + 2 ELSE next_uuid + 1
    IN  /\ p # NotPlacing
        /\ next_uuid + 2 <= MaxUuid
        /\ \E w \in (IF strategy = "optimized"
                     THEN Opt_create_port({World}, 0, p.network_id, {}, p.open,
                                          p.details, p.chosen, p.network_name,
                                          sw_uuid, lp_uuid)
                     ELSE NVP_create_port({World}, 0, p.network_id, {}, p.open,
                                          p.details, p.chosen, p.network_name,
                                          sw_uuid, lp_uuid)) :
              \E v \in port_count_written(w, p) : Settle("create_port", v)
        /\ placing' = [placing EXCEPT ![c] = NotPlacing]
        /\ UNCHANGED <<networks, orig_limits>>

\* Both strategies with a limit on the ports of a switch; network n1 has its
\* first switch, which holds no port.
InitDriverConc ==
    /\ strategy \in {"baseline", "optimized"}
    /\ limits \in [max_ports_per_switch : {1, 2},
                   max_rules_per_group : {0}, max_rules_per_port : {0}]
    /\ nvp_lswitches = {[uuid |-> 1, network_id |-> "n1",
                         display_name |-> "n1"]}
    /\ nvp_lports = {}
    /\ nvp_profiles = {}
    /\ LSwitch = IF strategy = "optimized"
                 THEN {[nvp_id |-> 1, network_id |-> "n1", port_count |-> 0,
                        display_name |-> "n1"]}
                 ELSE {}
    /\ LSwitchPort = {}
    /\ SecurityProfile = {}
    /\ next_uuid = 1
    /\ networks = [n \in Networks |-> IF n = "n1" THEN "active" ELSE "absent"]
    /\ drv_last = NoDrvCall
    /\ placing = [c \in Callers |-> NotPlacing]
    /\ orig_limits = [c \in Callers |-> NoScope]
    /\ IpamIdle

NextDriverConc ==
    \/ \E c \in Callers : BeginCreatePort(c, "n1")
    \/ \E c \in Callers : CommitCreatePort(c)

SpecDriverConc == InitDriverConc /\ [][NextDriverConc]_vars

\* C12: with max_ports_per_switch = N > 0, however create_port calls
\* interleave, no switch ends with more than N ports placed on it or with a
\* port_count above N.
C12_NoConcurrentOverbooking ==
    limits.max_ports_per_switch > 0 =>
        /\ \A s \in nvp_lswitches :
              lport_count(nvp_lports, s.uuid) <= limits.max_ports_per_switch
        /\ \A s \in LSwitch :
              /\ s.port_count <= limits.max_ports_per_switch
              /\ Cardinality({q \in LSwitchPort : q.switch_id = s.nvp_id})
                    <= limits.max_ports_per_switch

(***************************************************************************)
(* Claims about single allocator calls, stated on the step a call takes.   *)
(***************************************************************************)
\* C13: allocate_ip_address for a requested address that an allocated row of
\* the network already holds fails with IpAddressGenerationFailure and
\* leaves the address rows and the subnet cursors as they were.
C13_RequestedTakenFails ==
    [][(/\ ipam_calls' = ipam_calls + 1
        /\ ipam_last'.op = "allocate_ip_address"
        /\ ipam_last'.requested # None
        /\ \E r \in ip_addresses : /\ r.network_id = Net
                                    /\ r.address = ipam_last'.requested
                                    /\ ~r.deallocated)
          => /\ ipam_last'.result = "IpAddressGenerationFailure"
             /\ UNCHANGED <<ip_addresses, next_auto_assign_ip>>]_vars

\* Calls in a run of the allocator under one caller at a time.
MaxSeqCalls == 4

\* The allocator called by one caller at a time, for any version, with
\* released addresses reusable at once.
NextIpamSeq ==
    \/ \E port \in Ports, ip_address \in {None, 1} :
          /\ ipam_calls < MaxSeqCalls
          /\ AllocateIp(port, 0, None, ip_address)
    \/ \E port \in Ports : ipam_calls < MaxSeqCalls /\ DeallocateIp(port)
    \/ \E port \in Ports : AssociateIp(port)
    \/ Tick

SpecIpamSeq == InitIpam /\ [][NextIpamSeq]_vars

\* C15: with no address requested and nothing to reclaim, a successful
\* allocate_ip_address returns the smallest address a at or above the chosen
\* subnet's cursor that is neither excluded nor held by a row of the tenant
\* in the network, and leaves the cursor at a + 1.
C15_SequentialSmallestFree ==
    [][(/\ ipam_calls' = ipam_calls + 1
        /\ ipam_last'.op = "allocate_ip_address"
        /\ ipam_last'.requested = None
        /\ ipam_last'.kind = "sequential"
        /\ ipam_last'.result = "ok")
          => LET a == ipam_last'.row.address
                 s == ipam_last'.row.subnet_id
                 tenant == ipam_last'.row.tenant_id
                 taken(b) ==
                     \/ b \in get_ip_policy_rule_set(s)
                     \/ \E r \in ip_addresses : /\ r.network_id = Net
                                                 /\ r.tenant_id = tenant
                                                 /\ r.address = b
             IN  /\ a >= next_auto_assign_ip[s]
                 /\ ~taken(a)
                 /\ \A b \in next_auto_assign_ip[s]..(a - 1) : taken(b)
                 /\ next_auto_assign_ip'[s] = a + 1]_vars

\* The first call on a subnet whose first block is excluded returned the
\* first address after the block.
C15_Witness ==
    /\ Succeeded
    /\ ipam_last.kind = "sequential"
    /\ ipam_calls = 1
    /\ subnet_policy["s1"].exists
    /\ ipam_last.row.address = 2
    /\ next_auto_assign_ip["s1"] = 3

\* The addresses of subnet s that the rules of a policy cover.
ExcludedBy(policy, s) ==
    {a \in Block(Subnets[s].cidr) : \E ippr \in policy.exclude : a \in Block(ippr)}

\* C18: get_ip_policy_rule_set answers the subnet policy's addresses within
\* the CIDR when the subnet has a policy (the network's is ignored), else
\* the network policy's addresses within the CIDR, else the empty set.
C18_SubnetPolicyReplaces ==
    \A s \in SubnetIds :
        get_ip_policy_rule_set(s) =
            IF subnet_policy[s].exists THEN ExcludedBy(subnet_policy[s], s)
            ELSE IF network_policy.exists THEN ExcludedBy(network_policy, s)
            ELSE {}

\* Both policies exist, and the allocator, going by the rule set, handed
\* out the address that only the network's policy excludes.
C18_Witness ==
    /\ subnet_policy["s1"].exists
    /\ network_policy.exists
    /\ Succeeded
    /\ ipam_last.kind = "sequential"
    /\ ipam_last.row.address \in ExcludedBy(network_policy, "s1")

\* C19: the effective exclusion set of a subnet is the union of the subnet's
\* and the network's policy within the CIDR; sequential assignment never
\* returns an address of it.
C19_UnionOfPoliciesExcluded ==
    (Succeeded /\ ipam_last.kind = "sequential") =>
        ipam_last.row.address \notin
            (ExcludedBy(subnet_policy[ipam_last.row.subnet_id],
                        ipam_last.row.subnet_id)
               \cup ExcludedBy(network_policy, ipam_last.row.subnet_id))

\* C20: deallocate_ip_address(port) marks deallocated, with deallocated_at =
\* now, exactly the addresses that only this port references; an address
\* another port references as well stays allocated and as it was; no address
\* references the port afterwards; the other rows and the cursors are left
\* alone.
C20_DeallocateFrame ==
    [][(ipam_last'.op = "deallocate_ip_address"
           /\ ipam_calls' = ipam_calls + 1)
          => LET port == ipam_last'.port
             IN  /\ \A r \in ip_addresses :
                       \E q \in ip_addresses' :
                           /\ q.id = r.id
                           /\ q = IF r.ports = {port}
                                  THEN [r EXCEPT !.deallocated = TRUE,
                                                 !.deallocated_at = now,
                                                 !.ports = {}]
                                  ELSE [r EXCEPT !.ports = @ \ {port}]
                 /\ Cardinality(ip_addresses') = Cardinality(ip_addresses)
                 /\ \A q \in ip_addresses' : port \notin q.ports
                 /\ UNCHANGED next_auto_assign_ip]_vars

\* A port with one address of its own and one it shared gave them up: the
\* first is released now, the second is still allocated to the other port.
C20_Witness ==
    /\ ipam_last.op = "deallocate_ip_address"
    /\ \E r, q \in ip_addresses :
          /\ r.tenant_id = PortTenant[ipam_last.port]
          /\ r.deallocated /\ r.deallocated_at = now /\ r.ports = {}
          /\ q.tenant_id = PortTenant[ipam_last.port]
          /\ ~q.deallocated
          /\ q.ports = Ports \ {ipam_last.port}

(***************************************************************************)
(* The MAC allocator on its own.                                           *)
(***************************************************************************)
InitMac == IpamIdle /\ DrvIdle

NextMac ==
    \/ \E tenant_id \in Tenants, reuse_after \in 0..MaxReuseAfter,
          mac_address \in {None} \cup RequestedMacs :
          AllocateMac(tenant_id, reuse_after, mac_address)
    \/ \E address \in 1..MaxMac : DeallocateMac(address)
    \/ Tick

SpecMac == InitMac /\ [][NextMac]_vars

\* C16: on a freshly created MAC range, as long as every call so far was an
\* allocate_mac_address without a requested MAC (so nothing was released),
\* the i-th call returns first_address + i - 1, for every i up to the size
\* of the range.
C16_FreshRangeInOrder ==
    (\A i \in DOMAIN mac_log : /\ mac_log[i].op = "allocate_mac_address"
                                /\ mac_log[i].requested = None)
        => \A i \in DOMAIN mac_log :
              i <= MacRange.last_address - MacRange.first_address
                  => /\ mac_log[i].result = "ok"
                     /\ mac_log[i].address = MacRange.first_address + i - 1

\* Two allocations on the fresh range returned first_address and then
\* first_address + 1.
C16_Witness ==
    /\ Len(mac_log) = 2
    /\ mac_log[1].kind = "sequential" /\ mac_log[2].kind = "sequential"
    /\ mac_log[1].address = MacRange.first_address
    /\ mac_log[2].address = MacRange.first_address + 1

(***************************************************************************)
(* Further claims about the driver.                                        *)
(***************************************************************************)
\* The controller calls of an operation that create or update a port.
PortCalls(log) ==
    {i \in DOMAIN log : /\ log[i].kind = "remote"
                         /\ log[i].obj = "lport"
                         /\ log[i].act \in {"create", "update"}}

\* C14: create_port and update_port with groups whose rules together exceed
\* max_rules_per_port end with DriverLimitReached, and the controller is
\* never asked to create (or update) the port.
C14_OverPortLimitNoPortCall ==
    (/\ drv_last.op \in {"create_port", "update_port"}
     /\ limits.max_rules_per_port # LimitOff
     /\ drv_last.count # None
     /\ drv_last.count > limits.max_rules_per_port)
        => /\ drv_last.result = "DriverLimitReached"
           /\ PortCalls(drv_last.log) = {}

\* create_port was called with groups holding more rules than the limit.
C14_Witness ==
    /\ drv_last.op = "create_port"
    /\ drv_last.count # None
    /\ drv_last.count > limits.max_rules_per_port
    /\ drv_last.result = "DriverLimitReached"

(***************************************************************************)
(* Switch placement with a controller that answers every call.             *)
(***************************************************************************)
NextPlace ==
    \/ \E n \in Networks : CreateNetwork(n, 0)
    \/ \E n \in Networks : CreatePort(n, {}, 0)
    \/ \E port_id \in 1..next_uuid : DeletePort(port_id, 0)

SpecPlace == InitDriver /\ [][NextPlace]_vars

\* C17: with max_ports_per_switch = N > 0, a create_port for a network whose
\* only switch A holds fewer than N ports places the port on A and creates
\* no switch; when A holds N ports, the call creates exactly one switch B
\* of the network and places the port on B.  (So N + 1 calls in a row, from
\* A empty, put N ports on A and the last one on a new B.)  Both strategies.
C17_FillThenSpill ==
    [][(/\ drv_last'.op = "create_port"
        /\ drv_last'.result = "ok"
        /\ drv_last' # drv_last
        /\ limits.max_ports_per_switch > 0
        /\ \E p \in nvp_lports' \ nvp_lports :
              Cardinality(NVP_lswitches_for_network(nvp_lswitches,
                                                    p.network_id)) = 1)
          => \E p \in nvp_lports' \ nvp_lports :
                LET A == CHOOSE s \in NVP_lswitches_for_network(
                                          nvp_lswitches, p.network_id) : TRUE
                IN  /\ nvp_lports' = nvp_lports \cup {p}
                    /\ IF lport_count(nvp_lports, A.uuid)
                             < limits.max_ports_per_switch
                       THEN /\ p.lswitch = A.uuid
                            /\ nvp_lswitches' = nvp_lswitches
                       ELSE \E B \in nvp_lswitches' \ nvp_lswitches :
                               /\ nvp_lswitches' = nvp_lswitches \cup {B}
                               /\ B.network_id = p.network_id
                               /\ p.lswitch = B.uuid]_vars

\* The call after the N-th: switch A holds N ports, the call created a
\* second switch and put its port there.
C17_Witness ==
    /\ drv_last.op = "create_port"
    /\ drv_last.result = "ok"
    /\ limits.max_ports_per_switch = 2
    /\ \E A, B \in nvp_lswitches :
          /\ A.network_id = B.network_id
          /\ lport_count(nvp_lports, A.uuid) = 2
          /\ lport_count(nvp_lports, B.uuid) = 1
          /\ \E i \in DOMAIN drv_last.log :
                drv_last.log[i] = Ev("remote", "create", "lswitch", B.uuid, TRUE)

(***************************************************************************)
(* Further claims about the MAC allocator.                                 *)
(***************************************************************************)
\* C21: an allocate_mac_address call made at time now with
\* now - t < reuse_after never returns a MAC deallocated at time t, be the
\* MAC assigned by the cursor or asked for by value.
C21_MacNotReturnedInQuarantine ==
    \A i \in DOMAIN mac_log :
        (mac_log[i].op = "allocate_mac_address" /\ mac_log[i].result = "ok")
            => ~mac_log[i].quarantined

\* C22: sequential MAC assignment skips every value that has a MacAddress
\* row, whichever tenant the row belongs to: the MAC it returns had no row
\* before the call, and the call never runs into another tenant's MAC.
C22_SequentialSkipsAnyTenant ==
    [][(/\ Len(mac_log') = Len(mac_log) + 1
        /\ mac_log'[Len(mac_log')].op = "allocate_mac_address"
        /\ mac_log'[Len(mac_log')].kind = "sequential")
          => /\ mac_log'[Len(mac_log')].result = "ok"
             /\ ~\E r \in mac_addresses :
                    r.address = mac_log'[Len(mac_log')].address]_vars

(***************************************************************************)
(* The allocator on a network with both subnets, s1 (IPv4) enumerated      *)
(* before s2 (IPv6), called with and without an ip_version.                *)
(***************************************************************************)
IpVersions == {4, 6}

InitIpamSub ==
    /\ ip_addresses = {}
    /\ next_auto_assign_ip = [s \in SubnetIds |-> Subnets[s].cidr.address]
    /\ subnet_policy \in [SubnetIds -> SubnetPolicyChoices]
    /\ subnet_policy["s2"] = NoPolicy
    /\ network_policy \in NetworkPolicyChoices
    /\ now = 0
    /\ ipam_last = NoCall
    /\ ipam_calls = 0
    /\ pending = [p \in Ports |-> Idle]
    /\ MacIdle
    /\ DrvIdle

NextIpamSub ==
    \/ \E port \in Ports, version \in {None} \cup IpVersions,
          ip_address \in {None, 1} :
          /\ ipam_calls < MaxSeqCalls
          /\ AllocateIp(port, 0, version, ip_address)
    \/ \E port \in Ports : ipam_calls < MaxSeqCalls /\ DeallocateIp(port)

SpecIpamSub == InitIpamSub /\ [][NextIpamSub]_vars

\* C23: an allocate_ip_address call made with an ip_version returns an
\* address of that version, on the reclaim path as on the others.
C23_ReturnedVersionAsAsked ==
    (Succeeded /\ ipam_last.version # None)
        => ipam_last.row.version = ipam_last.version

\* cidr_size - allocated_count - excluded_count_within_cidr
FreeCapacity(rows, s) ==
    CidrSize(s) - ips_in_subnet(rows, s) - Cardinality(get_ip_policy_rule_set(s))

\* The subnets, in enumeration order, of the version asked for, holding the
\* requested address if there is one, with free capacity.
Qualifying(rows, cursor, version, ip_address) ==
    SelectSeq(subnet_find(cursor, Net, version),
              LAMBDA s : /\ ip_address # None
                              => ip_address \in Block(Subnets[s].cidr)
                         /\ FreeCapacity(rows, s) > 0)

\* C24: when nothing is reclaimable, allocate_ip_address uses the first
\* subnet in enumeration order, of the requested version and holding the
\* requested address, whose free capacity is positive, and fails with
\* IpAddressGenerationFailure when there is none; with a requested address
\* as without.
C24_FirstSubnetWithCapacity ==
    [][(/\ ipam_calls' = ipam_calls + 1
        /\ ipam_last'.op = "allocate_ip_address"
        /\ ipam_last'.kind # "reclaim")
          => LET q == Qualifying(ip_addresses, next_auto_assign_ip,
                                 ipam_last'.version, ipam_last'.requested)
             IN  /\ q = <<>>
                      => ipam_last'.result = "IpAddressGenerationFailure"
                 /\ (q # <<>> /\ ipam_last'.row # NoRow)
                      => ipam_last'.row.subnet_id = q[1]]_vars

\* The addresses of the range that no allocated row holds.
MacUnallocated(rows) ==
    {a \in MacRange.first_address..(MacRange.last_address - 1) :
        ~\E r \in rows : r.address = a /\ ~r.deallocated}

\* C25: when nothing is reclaimable, allocate_mac_address fails with
\* MacAddressGenerationFailure if and only if the range has no unallocated
\* address left; while it has one, the call succeeds.  Stated for calls
\* that ask for no particular address.
C25_FailsIffExhausted ==
    [][(/\ Len(mac_log') = Len(mac_log) + 1
        /\ mac_log'[Len(mac_log')].op = "allocate_mac_address"
        /\ mac_log'[Len(mac_log')].requested = None
        /\ mac_log'[Len(mac_log')].kind # "reclaim")
          => /\ mac_log'[Len(mac_log')].result = "MacAddressGenerationFailure"
                  <=> MacUnallocated(mac_addresses) = {}
             /\ MacUnallocated(mac_addresses) # {}
                  => mac_log'[Len(mac_log')].result = "ok"]_vars

\* C26: in the baseline strategy, a delete_port that removes the last
\* remaining port of a switch also deletes that switch on the controller.
C26_BaselineLastPortDeletesSwitch ==
    [][(/\ strategy = "baseline"
        /\ drv_last'.op = "delete_port"
        /\ drv_last'.result = "ok")
          => \A p \in nvp_lports \ nvp_lports' :
                 lport_count(nvp_lports', p.lswitch) = 0
                     => ~\E s \in nvp_lswitches' : s.uuid = p.lswitch]_vars

\* The network has a switch on the controller.
HasSwitch(network_id) == \E s \in nvp_lswitches : s.network_id = network_id

\* C27: create_port fails with BadNVPState, creating neither a switch nor a
\* port on the controller, if and only if no switch at all exists for the
\* network (so none with free capacity either); whenever the network has a
\* switch, create_port does not raise BadNVPState.  Both strategies.
C27_BadStateIffNoSwitch ==
    [][\A n \in Networks :
          CreatePort(n, {}, 0)
            => /\ drv_last'.result = "BadNVPState" <=> ~HasSwitch(n)
               /\ drv_last'.result = "BadNVPState"
                    => /\ nvp_lswitches' = nvp_lswitches
                       /\ nvp_lports' = nvp_lports]_vars

(***************************************************************************)
(* Provider-network validation.                                            *)
(***************************************************************************)
\* Python's None in a string-valued place.
NoneStr == "None"

\* The arguments _config_provider_attrs is called with: a transport zone's
\* uuid or None, a network type or None ("lol" is no known type, "VLAN" is
\* vlan in capitals), a segment id or None (0 is an id Python takes for
\* false).
PhysNets == {NoneStr, "net_uuid", "snet_uuid"}
NetTypes == {NoneStr, "flat", "vlan", "bridge", "gre", "stt", "local", "lol",
             "VLAN"}
SegmentIds == {None, 0, 10}

\* str.lower on the network types above.
lower(s) == IF s = "VLAN" THEN "vlan" ELSE s

\* physical_net_type_map with flat and vlan mapped to themselves.
physical_net_type_map_identity ==
    [stt |-> "stt", gre |-> "gre", flat |-> "flat", bridge |-> "bridge",
     vlan |-> "vlan", local |-> "local"]

\* nvp_driver.physical_net_type_map: the controller's connector type of
\* each network type.
physical_net_type_map ==
    [stt |-> "stt", gre |-> "gre", flat |-> "bridge", bridge |-> "bridge",
     vlan |-> "bridge", local |-> "local"]

\* _config_provider_attrs with flat among the types that take a segment id.
_config_provider_attrs_families(phys_net, net_type, segment_id, result_count) ==
    IF ~(phys_net # NoneStr \/ net_type # NoneStr)
    THEN [result |-> "ok", transport_zone |-> <<>>]
    ELSE IF phys_net = NoneStr /\ net_type # NoneStr
    THEN [result |-> "ProvidernetParamError", transport_zone |-> <<>>]
    ELSE IF phys_net # NoneStr /\ net_type = NoneStr
    THEN [result |-> "ProvidernetParamError", transport_zone |-> <<>>]
    ELSE IF net_type \notin {"flat", "bridge", "vlan"} /\ segment_id \notin {None, 0}
    THEN [result |-> "SegmentIdUnsupported", transport_zone |-> <<>>]
    ELSE IF net_type = "vlan" /\ segment_id \in {None, 0}
    THEN [result |-> "SegmentIdRequired", transport_zone |-> <<>>]
    ELSE LET key == lower(net_type)
             phys_type == IF key \in DOMAIN physical_net_type_map
                          THEN physical_net_type_map[key] ELSE NoneStr
         IN  IF phys_type = NoneStr
             THEN [result |-> "InvalidPhysicalNetworkType",
                   transport_zone |-> <<>>]
             ELSE IF result_count = 0
             THEN [result |-> "PhysicalNetworkNotFound",
                   transport_zone |-> <<>>]
             ELSE [result |-> "ok",
                   transport_zone |->
                       <<[zone_uuid |-> phys_net, transport_type |-> phys_type,
                          vlan_id |-> segment_id]>>]

\* _config_provider_attrs with the negation of the segment test left out.
_config_provider_attrs_unnegated(phys_net, net_type, segment_id, result_count) ==
    IF ~(phys_net # NoneStr \/ net_type # NoneStr)
    THEN [result |-> "ok", transport_zone |-> <<>>]
    ELSE IF phys_net = NoneStr /\ net_type # NoneStr
    THEN [result |-> "ProvidernetParamError", transport_zone |-> <<>>]
    ELSE IF phys_net # NoneStr /\ net_type = NoneStr
    THEN [result |-> "ProvidernetParamError", transport_zone |-> <<>>]
    ELSE IF net_type \in {"bridge", "vlan"} /\ segment_id \notin {None, 0}
    THEN [result |-> "SegmentIdUnsupported", transport_zone |-> <<>>]
    ELSE IF net_type = "vlan" /\ segment_id \in {None, 0}
    THEN [result |-> "SegmentIdRequired", transport_zone |-> <<>>]
    ELSE LET key == lower(net_type)
             phys_type == IF key \in DOMAIN physical_net_type_map
                          THEN physical_net_type_map[key] ELSE NoneStr
         IN  IF phys_type = NoneStr
             THEN [result |-> "InvalidPhysicalNetworkType",
                   transport_zone |-> <<>>]
             ELSE IF result_count = 0
             THEN [result |-> "PhysicalNetworkNotFound",
                   transport_zone |-> <<>>]
             ELSE [result |-> "ok",
                   transport_zone |->
                       <<[zone_uuid |-> phys_net, transport_type |-> phys_type,
                          vlan_id |-> segment_id]>>]

\* NVPDriver._config_provider_attrs: the outcome and the calls of
\* switch.transport_zone it makes.  result_count is what the controller's
\* query for the transport zone phys_net returns.
_config_provider_attrs(phys_net, net_type, segment_id, result_count) ==
    IF ~(phys_net # NoneStr \/ net_type # NoneStr)
    THEN [result |-> "ok", transport_zone |-> <<>>]
    ELSE IF phys_net = NoneStr /\ net_type # NoneStr
    THEN [result |-> "ProvidernetParamError", transport_zone |-> <<>>]
    ELSE IF phys_net # NoneStr /\ net_type = NoneStr
    THEN [result |-> "ProvidernetParamError", transport_zone |-> <<>>]
    ELSE IF net_type \notin {"bridge", "vlan"} /\ segment_id \notin {None, 0}
    THEN [result |-> "SegmentIdUnsupported", transport_zone |-> <<>>]
    ELSE IF net_type = "vlan" /\ segment_id \in {None, 0}
    THEN [result |-> "SegmentIdRequired", transport_zone |-> <<>>]
    ELSE LET key == lower(net_type)
             phys_type == IF key \in DOMAIN physical_net_type_map
                          THEN physical_net_type_map[key] ELSE NoneStr
         IN  IF phys_type = NoneStr
             THEN [result |-> "InvalidPhysicalNetworkType",
                   transport_zone |-> <<>>]
             ELSE IF result_count = 0
             THEN [result |-> "PhysicalNetworkNotFound",
                   transport_zone |-> <<>>]
             ELSE [result |-> "ok",
                   transport_zone |->
                       <<[zone_uuid |-> phys_net, transport_type |-> phys_type,
                          vlan_id |-> segment_id]>>]

\* A call of _config_provider_attrs on a switch under construction.
ConfigProviderAttrs(phys_net, net_type, segment_id, result_count) ==
    /\ \E r \in {_config_provider_attrs(phys_net, net_type, segment_id,
                                         result_count)} :
          drv_last' = [op |-> "_config_provider_attrs", result |-> r.result,
                       switch |-> None, count |-> None, log |-> <<>>,
                       phys_net |-> phys_net, net_type |-> net_type,
                       segment_id |-> segment_id,
                       result_count |-> result_count,
                       transport_zone |-> r.transport_zone]
    /\ UNCHANGED <<strategy, limits, nvp_lswitches, nvp_lports, nvp_profiles,
                   LSwitch, LSwitchPort, SecurityProfile, next_uuid, networks,
                   placing, orig_limits>>
    /\ UNCHANGED ipamVars

NextProvider ==
    \E phys_net \in PhysNets, net_type \in NetTypes, segment_id \in SegmentIds, result_count \in {0, 1} :
        ConfigProviderAttrs(phys_net, net_type, segment_id, result_count)

SpecProvider == InitMac /\ [][NextProvider]_vars

\* The last call was _config_provider_attrs with both physical_network and
\* network_type given; a segment id is set when it is an id other than 0.
ProviderCall == drv_last.op = "_config_provider_attrs"
BothGiven == drv_last.phys_net # NoneStr /\ drv_last.net_type # NoneStr
SegmentSet == drv_last.segment_id \notin {None, 0}

\* C28 as stated: with both parameters given, validation fails with
\* SegmentIdUnsupported exactly when segment_id is set and network_type is
\* not one of flat, vlan, bridge.
C28_AsStated ==
    (ProviderCall /\ BothGiven)
        => (drv_last.result = "SegmentIdUnsupported"
              <=> (SegmentSet
                   /\ drv_last.net_type \notin {"flat", "vlan", "bridge"}))

\* C28, amended: with both parameters given, validation fails with
\* SegmentIdUnsupported exactly when segment_id is set and network_type is
\* not one of vlan, bridge; for vlan and bridge a set segment_id does not
\* cause SegmentIdUnsupported, for flat it does.
C28_SegmentIdUnsupported ==
    (ProviderCall /\ BothGiven)
        => (drv_last.result = "SegmentIdUnsupported"
              <=> (SegmentSet /\ drv_last.net_type \notin {"vlan", "bridge"}))

C28_Witness ==
    /\ ProviderCall /\ BothGiven /\ SegmentSet
    /\ drv_last.net_type = "bridge"
    /\ drv_last.result = "ok"
    /\ drv_last.transport_zone # <<>>

\* C29: _config_provider_attrs with a physical network, network_type flat
\* and a segment_id set fails with SegmentIdUnsupported and binds no
\* transport zone to the switch.
C29_FlatWithSegmentFails ==
    (/\ ProviderCall
     /\ drv_last.phys_net # NoneStr
     /\ drv_last.net_type = "flat"
     /\ SegmentSet)
        => /\ drv_last.result = "SegmentIdUnsupported"
           /\ drv_last.transport_zone = <<>>

C29_Witness ==
    /\ ProviderCall
    /\ drv_last.phys_net = "net_uuid"
    /\ drv_last.net_type = "flat"
    /\ drv_last.segment_id = 10
    /\ drv_last.result_count = 1
    /\ drv_last.result = "SegmentIdUnsupported"

\* The network types C30 ranges over (None is an absent type, "lol" an
\* unknown one), and the outcome its ordered rules give the last call when
\* the segment rule admits a segment id for the types in families.
ClaimTypes == {NoneStr, "flat", "vlan", "bridge", "gre", "stt", "local", "lol"}
ClaimedOutcome(families) ==
    LET phys_net == drv_last.phys_net
        net_type == drv_last.net_type
        fails(e) == [result |-> e, transport_zone |-> <<>>]
    IN  IF phys_net = NoneStr /\ net_type = NoneStr THEN fails("ok")
        ELSE IF (phys_net = NoneStr) # (net_type = NoneStr)
        THEN fails("ProvidernetParamError")
        ELSE IF SegmentSet /\ net_type \notin families
        THEN fails("SegmentIdUnsupported")
        ELSE IF net_type = "vlan" /\ ~SegmentSet
        THEN fails("SegmentIdRequired")
        ELSE IF net_type = "lol" THEN fails("InvalidPhysicalNetworkType")
        ELSE IF drv_last.result_count = 0
        THEN fails("PhysicalNetworkNotFound")
        ELSE [result |-> "ok",
              transport_zone |->
                  <<[zone_uuid |-> phys_net,
                     transport_type |->
                         IF net_type \in {"flat", "vlan", "bridge"}
                         THEN "bridge" ELSE net_type,
                     vlan_id |-> drv_last.segment_id]>>]

\* C30 as stated: for every combination of physical_network, network_type,
\* segment_id and transport zone found or not, _config_provider_attrs has
\* the one outcome of the first matching rule: both absent, no binding and
\* no error; exactly one present, ProvidernetParamError; segment_id set with
\* a type other than flat, vlan, bridge, SegmentIdUnsupported; vlan without
\* segment_id, SegmentIdRequired; unknown type,
\* InvalidPhysicalNetworkType; zone not found, PhysicalNetworkNotFound;
\* otherwise the switch is bound to zone = physical_network, vlan id =
\* segment_id and the connector type of the network type.  A zone is bound
\* only in the last case.
C30_AsStated ==
    (ProviderCall /\ drv_last.net_type \in ClaimTypes)
        => [result |-> drv_last.result,
            transport_zone |-> drv_last.transport_zone]
               = ClaimedOutcome({"flat", "vlan", "bridge"})

\* C30, amended: the same ordered rules, the segment rule being: segment_id
\* set with a type other than vlan, bridge gives SegmentIdUnsupported.
C30_FirstMatchingRule ==
    (ProviderCall /\ drv_last.net_type \in ClaimTypes)
        => [result |-> drv_last.result,
            transport_zone |-> drv_last.transport_zone]
               = ClaimedOutcome({"vlan", "bridge"})

C30_Witness ==
    /\ ProviderCall
    /\ drv_last.net_type = "vlan"
    /\ drv_last.segment_id = 10
    /\ drv_last.result = "ok"
    /\ drv_last.transport_zone =
           <<[zone_uuid |-> "snet_uuid", transport_type |-> "bridge",
              vlan_id |-> 10]>>

\* C31: in the optimized strategy, after every completed create_network,
\* create_port, delete_port or delete_network no local LSwitch row has
\* port_count = 0.
C31_NoEmptySwitchRemains ==
    (/\ strategy = "optimized"
     /\ drv_last.op \in {"create_network", "create_port", "delete_port",
                         "delete_network"})
        => \A s \in LSwitch : s.port_count # 0

\* The errors that reject a mutation of a group's rules, the controller's
\* updates of a profile in an operation's log, and whether one more rule in
\* the group would take a port that carries it over max_rules_per_port.
RuleRejections == {"SecurityGroupRuleExists", "SecurityGroupRuleNotFound",
                   "SecurityGroupNotFound", "DriverLimitReached"}
ProfileUpdates(log) ==
    {i \in DOMAIN log : /\ log[i].kind = "remote"
                        /\ log[i].act = "update"
                        /\ log[i].obj = "profile"}
WouldPassPortLimit(group_id) ==
    /\ ~IsZero(limits.max_rules_per_port)
    /\ \E p \in nvp_lports, g \in nvp_profiles :
          /\ g.group_id = group_id
          /\ g.uuid \in p.security_profiles
          /\ _check_rule_count_for_groups(
                 {q \in nvp_profiles : q.uuid \in p.security_profiles}) + 1
               > limits.max_rules_per_port

\* C32: a rejected security-group rule mutation sends no profile update to
\* the controller and leaves the profiles' rule lists as they were:
\* creating a rule the group holds fails with SecurityGroupRuleExists,
\* deleting a rule it does not hold with SecurityGroupRuleNotFound, a rule
\* or group mutation whose query does not return exactly one profile with
\* SecurityGroupNotFound, creating a rule that would pass the per-port limit
\* with DriverLimitReached (a rule that is both held and over the limit
\* fails with one of the two).
C32_RejectedRuleMutationNoUpdate ==
    [][LET groupd == NVP_get_security_group(nvp_profiles, "g1")
           rulelist == (CHOOSE q \in groupd : TRUE).logical_port_ingress_rules
           found == Cardinality(groupd) = 1
           result == drv_last'.result
       IN  /\ CreateSecurityGroupRule("g1", "ingress", "r2", 0)
                => /\ ~found => result = "SecurityGroupNotFound"
                   /\ (found /\ "r2" \in Range(rulelist))
                        => result \in
                             {"SecurityGroupRuleExists"} \cup
                             (IF WouldPassPortLimit("g1")
                              THEN {"DriverLimitReached"} ELSE {})
                   /\ (found /\ WouldPassPortLimit("g1"))
                        => result \in
                             {"DriverLimitReached"} \cup
                             (IF "r2" \in Range(rulelist)
                              THEN {"SecurityGroupRuleExists"} ELSE {})
           /\ DeleteSecurityGroupRule("g1", "ingress", "r2", 0)
                => /\ ~found => result = "SecurityGroupNotFound"
                   /\ (found /\ "r2" \notin Range(rulelist))
                        => result = "SecurityGroupRuleNotFound"
           /\ (/\ drv_last'.op = "update_security_group"
               /\ drv_last' # drv_last
               /\ ~found) => result = "SecurityGroupNotFound"
           /\ (/\ drv_last'.op \in {"create_security_group_rule",
                                     "delete_security_group_rule",
                                     "update_security_group"}
               /\ result \in RuleRejections)
                => /\ nvp_profiles' = nvp_profiles
                   /\ ProfileUpdates(drv_last'.log) = {}]_vars

\* A rule the group holds was created again and refused.
C32_Witness ==
    /\ drv_last.op = "create_security_group_rule"
    /\ drv_last.result = "SecurityGroupRuleExists"
    /\ \E q \in nvp_profiles :
          q.group_id = "g1" /\ "r2" \in Range(q.logical_port_ingress_rules)

(***************************************************************************)
(* limits_checked: the plugin tells the driver which limits it checks       *)
(* itself.  The driver is one instance for all requests; a request is       *)
(* outside the scope ("out"), in its body ("in"), or in its body with an    *)
(* exception on its way out ("raised").                                     *)
(***************************************************************************)
\* NVPDriver.limits_checked up to its yield: each named limit is saved and
\* set to False.
EnterLimitsChecked(c, names) ==
    /\ orig_limits[c].state = "out"
    /\ orig_limits' = [orig_limits EXCEPT ![c] =
                          [state |-> "in",
                           orig |-> {<<l, limits[l]>> : l \in names}]]
    /\ limits' = [l \in DOMAIN limits |->
                     IF l \in names THEN LimitOff ELSE limits[l]]
    /\ UNCHANGED <<strategy, nvp_lswitches, nvp_lports, nvp_profiles, LSwitch,
                   LSwitchPort, SecurityProfile, next_uuid, networks, drv_last,
                   placing>>
    /\ UNCHANGED ipamVars

\* NVPDriver.limits_checked after its yield: self.limits.update(orig_limits)
\* when the body returns; an exception of the body is raised at the yield
\* and ends the generator there.
LeaveLimitsChecked(c) ==
    /\ orig_limits[c].state \in {"in", "raised"}
    /\ limits' = IF orig_limits[c].state = "raised" THEN limits
                 ELSE [l \in DOMAIN limits |->
                          IF \E o \in orig_limits[c].orig : o[1] = l
                          THEN (CHOOSE o \in orig_limits[c].orig : o[1] = l)[2]
                          ELSE limits[l]]
    /\ orig_limits' = [orig_limits EXCEPT ![c] = NoScope]
    /\ UNCHANGED <<strategy, nvp_lswitches, nvp_lports, nvp_profiles, LSwitch,
                   LSwitchPort, SecurityProfile, next_uuid, networks, drv_last,
                   placing>>
    /\ UNCHANGED ipamVars

\* A driver call of request c ends; inside limits_checked an exception
\* leaves the body.
RequestFinish(c, op, w) ==
    /\ Settle(op, w)
    /\ orig_limits' = [orig_limits EXCEPT ![c].state =
                          IF @ = "in" /\ w.result # "ok" THEN "raised" ELSE @]
    /\ UNCHANGED <<placing, networks>>

\* create_security_group and create_port of the baseline driver, called by
\* request c.
RequestCreateSecurityGroup(c, group_id, ingress_rules) ==
    /\ orig_limits[c].state # "raised"
    /\ ~\E q \in nvp_profiles : q.group_id = group_id
    /\ next_uuid + 1 <= MaxUuid
    /\ \E w \in NVP_create_security_group({World}, 0, next_uuid + 1, group_id,
                                          ingress_rules, <<>>) :
          RequestFinish(c, "create_security_group", w)

RequestCreatePort(c, network_id, security_groups) ==
    LET switches == NVP_lswitches_for_network(nvp_lswitches, network_id)
        open == NVP_lswitch_select_open(switches, nvp_lports,
                                        limits.max_ports_per_switch)
        details == NVP_get_network_details(switches)
    IN  /\ orig_limits[c].state # "raised"
        /\ networks[network_id] = "active"
        /\ next_uuid + 2 <= MaxUuid
        /\ \E chosen \in (IF open # {} THEN open ELSE {None}),
              network_name \in (IF open = {} /\ details # {} THEN details
                                ELSE {"none"}) :
              \E w \in NVP_create_port({World}, 0, network_id,
                                       security_groups, open, details, chosen,
                                       network_name, next_uuid + 1,
                                       IF open = {} THEN next_uuid + 2
                                       ELSE next_uuid + 1) :
                  RequestFinish(c, "create_port", w)

\* The limit names a request passes to limits_checked.
CheckedLimits == {{"max_rules_per_group"}, {"max_rules_per_port"},
                  {"max_rules_per_group", "max_rules_per_port"}}

NextLimits ==
    \/ \E c \in Callers, names \in CheckedLimits : EnterLimitsChecked(c, names)
    \/ \E c \in Callers : LeaveLimitsChecked(c)
    \/ \E c \in Callers, ingress_rules \in RuleLists :
          RequestCreateSecurityGroup(c, "g1", ingress_rules)
    \/ \E c \in Callers, groups \in SUBSET GroupIds :
          RequestCreatePort(c, "n1", groups)

SpecLimits == InitSG /\ [][NextLimits]_vars

\* The value request c's limits_checked saved for limit l, if it named l.
Named(c, l) == \E o \in orig_limits[c].orig : o[1] = l
Saved(c, l) == (CHOOSE o \in orig_limits[c].orig : o[1] = l)[2]

\* C33: limits_checked(limits) is a scoped override.  Entering sets every
\* named limit to False and changes no other; inside the scope the driver
\* skips its check of a named limit; when control leaves the scope, by the
\* body's return or by its exception, every named limit holds the value it
\* had before the scope was entered and the other limits are unchanged.
C33_ScopedOverride ==
    [][\A c \in Callers :
          /\ \A names \in CheckedLimits :
                EnterLimitsChecked(c, names)
                  => \A l \in DOMAIN limits :
                         limits'[l] = IF l \in names THEN LimitOff
                                      ELSE limits[l]
          /\ \A groups \in SUBSET GroupIds :
                (/\ RequestCreatePort(c, "n1", groups)
                 /\ orig_limits[c].state = "in"
                 /\ Named(c, "max_rules_per_port")
                 /\ limits.max_rules_per_port = LimitOff)
                  => drv_last'.result # "DriverLimitReached"
          /\ LeaveLimitsChecked(c)
                => \A l \in DOMAIN limits :
                       limits'[l] = IF Named(c, l) THEN Saved(c, l)
                                    ELSE limits[l]]_vars

\* C39: while one request is inside limits_checked([L]), the quota check
\* for L of another request that asserted no override is still enforced:
\* that request's create_port with groups of more rules than the configured
\* max_rules_per_port fails with DriverLimitReached.
C39_OverrideIsPerRequest ==
    [][\A c, d \in Callers, groups \in SUBSET GroupIds :
          (/\ c # d
           /\ RequestCreatePort(c, "n1", groups)
           /\ orig_limits[c].state = "out"
           /\ orig_limits[d].state = "in"
           /\ Named(d, "max_rules_per_port")
           /\ Saved(d, "max_rules_per_port") # LimitOff
           /\ \A g \in groups :
                 Cardinality(NVP_get_security_group(nvp_profiles, g)) = 1
           /\ _check_rule_count_for_groups(
                  {q \in nvp_profiles : q.group_id \in groups})
                > Saved(d, "max_rules_per_port"))
            => drv_last'.result = "DriverLimitReached"]_vars

MaxReclaimCalls == 6
ReclaimBudget == ipam_calls + Len(mac_log) < MaxReclaimCalls

NextReclaim ==
    \/ \E port \in Ports : ReclaimBudget /\ AllocateIp(port, 0, None, None)
    \/ \E port \in Ports : ReclaimBudget /\ DeallocateIp(port)
    \/ \E tenant_id \in Tenants, reuse_after \in 0..MaxReuseAfter :
          ReclaimBudget /\ AllocateMac(tenant_id, reuse_after, None)
    \/ \E address \in 1..MaxMac : ReclaimBudget /\ DeallocateMac(address)

SpecReclaim == InitMac /\ [][NextReclaim]_vars

\* The step is an allocate_ip_address that returned a reclaimed row.
IpReclaimStep ==
    /\ ipam_calls' = ipam_calls + 1
    /\ ipam_last'.op = "allocate_ip_address"
    /\ ipam_last'.kind = "reclaim"
    /\ ipam_last'.result = "ok"

\* The step is an allocate_mac_address that returned a reclaimed row.
MacReclaimStep ==
    /\ Len(mac_log') = Len(mac_log) + 1
    /\ mac_log'[Len(mac_log')].op = "allocate_mac_address"
    /\ mac_log'[Len(mac_log')].kind = "reclaim"
    /\ mac_log'[Len(mac_log')].result = "ok"

\* C35: when allocate_ip_address or allocate_mac_address takes the reclaim
\* fast path, the record it returns is a row that existed before the call,
\* now with its deallocated flag cleared and its deallocated_at cleared; no
\* row is added, and neither the subnet cursors (next_auto_assign_ip) nor
\* the range cursor (next_auto_assign_mac) move.
C35_ReclaimTouchesOnlyTheRow ==
    [][/\ IpReclaimStep
          => /\ \E old \in ip_addresses :
                   /\ old.id = ipam_last'.row.id
                   /\ old.deallocated
                   /\ \E new \in ip_addresses' :
                          /\ new.id = old.id
                          /\ new.address = old.address
                          /\ ~new.deallocated
                          /\ new.deallocated_at = None
                          /\ ip_addresses' \ {new} = ip_addresses \ {old}
             /\ ~ipam_last'.row.deallocated
             /\ ipam_last'.row.deallocated_at = None
             /\ Cardinality(ip_addresses') = Cardinality(ip_addresses)
             /\ next_auto_assign_ip' = next_auto_assign_ip
             /\ next_auto_assign_mac' = next_auto_assign_mac
       /\ MacReclaimStep
          => /\ \E old \in mac_addresses :
                   /\ old.address = mac_log'[Len(mac_log')].address
                   /\ old.deallocated
                   /\ mac_addresses' =
                          (mac_addresses \ {old}) \cup
                              {[old EXCEPT !.deallocated = FALSE,
                                           !.deallocated_at = None]}
             /\ Cardinality(mac_addresses') = Cardinality(mac_addresses)
             /\ next_auto_assign_mac' = next_auto_assign_mac
             /\ next_auto_assign_ip' = next_auto_assign_ip]_vars

\* Both allocators have just handed a released record out again: the last
\* MAC call and the last IP call were reclaims.
C35_Witness ==
    /\ ipam_last.op = "allocate_ip_address"
    /\ ipam_last.kind = "reclaim"
    /\ ipam_last.result = "ok"
    /\ mac_log # <<>>
    /\ mac_log[Len(mac_log)].kind = "reclaim"
    /\ mac_log[Len(mac_log)].result = "ok"

\* C36: in the optimized strategy, whatever max_ports_per_switch is, a
\* create_port for network N that succeeds has placed the port on a switch
\* of N, and a switch it created for N carries the name of a switch that N
\* had before the call.
C36_PlacedWithinOwnNetwork ==
    [][\A n \in Networks :
          (/\ strategy = "optimized"
           /\ CreatePort(n, {}, 0)
           /\ drv_last'.result = "ok")
             => \E s \in LSwitch' :
                   /\ s.nvp_id = drv_last'.switch
                   /\ s.network_id = n
                   /\ (\A q \in LSwitch : q.nvp_id # s.nvp_id)
                        => \E q \in LSwitch : /\ q.network_id = n
                                              /\ q.display_name = s.display_name]_vars

(***************************************************************************)
(* Port creation under both quotas: ports per switch and rules per port.   *)
(***************************************************************************)
\* Either driver, configured with a limit on the ports of a switch and with
\* the rule quotas; nothing exists yet.
InitQuota ==
    /\ strategy \in {"baseline", "optimized"}
    /\ limits \in [max_ports_per_switch : {0, 1},
                   max_rules_per_group : {3}, max_rules_per_port : {2}]
    /\ nvp_lswitches = {}
    /\ nvp_lports = {}
    /\ nvp_profiles = {}
    /\ LSwitch = {}
    /\ LSwitchPort = {}
    /\ SecurityProfile = {}
    /\ next_uuid = 0
    /\ networks = [n \in Networks |-> "absent"]
    /\ drv_last = NoDrvCall
    /\ placing = [c \in Callers |-> NotPlacing]
    /\ orig_limits = [c \in Callers |-> NoScope]
    /\ IpamIdle

NextQuota ==
    \/ CreateNetwork("n1", 0)
    \/ \E groups \in SUBSET GroupIds : CreatePort("n1", groups, 0)
    \/ \E port_id \in 1..next_uuid : DeletePort(port_id, 0)
    \/ \E g \in GroupIds, ingress_rules \in RuleLists :
          CreateSecurityGroup(g, ingress_rules, <<>>, 0)

SpecQuota == InitQuota /\ [][NextQuota]_vars

\* C37: a create_port that fails with DriverLimitReached leaves the set of
\* switches on the controller and the local LSwitch table as they were
\* before the call.
C37_RejectedPortLeavesNoSwitch ==
    [][\A groups \in SUBSET GroupIds :
          (/\ CreatePort("n1", groups, 0)
           /\ drv_last'.result = "DriverLimitReached")
             => /\ nvp_lswitches' = nvp_lswitches
                /\ LSwitch' = LSwitch]_vars

(***************************************************************************)
(* A MAC range through cycles of allocation and release.                   *)
(***************************************************************************)
\* Number of MAC allocator calls in a run of allocations and releases.
MaxCycleCalls == 6

\* One tenant allocates without naming a MAC and releases what it holds;
\* its reuse_after keeps a MAC released at this clock reading in quarantine.
NextMacCycle ==
    \/ /\ Len(mac_log) < MaxCycleCalls
       /\ AllocateMacCall("t1", MaxReuseAfter, None)
    \/ \E address \in 1..MaxMac :
          Len(mac_log) < MaxCycleCalls /\ DeallocateMacCall(address)
    \/ Tick

SpecMacCycle == InitMac /\ [][NextMacCycle]_vars

\* C38: after any sequence of allocate_mac_address and
\* deallocate_mac_address calls, every MAC handed out by sequential
\* assignment lies in first_address..last_address of the range, and the
\* range's cursor is at most last_address + 1.
C38_SequentialStaysInRange ==
    /\ \A i \in DOMAIN mac_log :
          (/\ mac_log[i].op = "allocate_mac_address"
           /\ mac_log[i].kind = "sequential"
           /\ mac_log[i].result = "ok")
             => /\ MacRange.first_address <= mac_log[i].address
                /\ mac_log[i].address <= MacRange.last_address
    /\ next_auto_assign_mac <= MacRange.last_address + 1

(***************************************************************************)
(* The sequential-assignment loops, one iteration at a time.               *)
(***************************************************************************)
\* Number of allocator calls in a run that follows the loops.
MaxScanCalls == 3

\* No call is inside a loop.
NoneScanning == \A p \in Ports : pending[p] = Idle

\* The cursor left where it was.
advance_stuck(c) == c

\* subnet["next_auto_assign_ip"] = next_ip_int + 1
advance(c) == c + 1

\* allocate_ip_address for the port, with no address requested, up to its
\* loop: nothing to reclaim, a subnet chosen.  The call holds the subnet
\* and the cursor it read.
EnterIpLoop(port) ==
    LET subnet == _choose_available_subnet(ip_addresses, next_auto_assign_ip,
                                           Net, None, None)
    IN  /\ NoneScanning
        /\ ipam_calls + Len(mac_log) < MaxScanCalls
        /\ ip_address_find_reusable(ip_addresses, Net, MaxReuseAfter, None,
                                    now) = {}
        /\ subnet # NoSubnet
        /\ ipam_calls' = ipam_calls + 1
        /\ pending' = [pending EXCEPT ![port] =
                          [result |-> "scanning", kind |-> "ip",
                           row |-> [NoRow EXCEPT !.subnet_id = subnet,
                                                 !.tenant_id = PortTenant[port]],
                           cursor |-> next_auto_assign_ip]]
        /\ UNCHANGED <<ip_addresses, next_auto_assign_ip, subnet_policy,
                       network_policy, now, ipam_last>>
        /\ UNCHANGED macVars
        /\ UNCHANGED drvVars

\* One iteration of the loop of allocate_ip_address: the cursor's value is
\* taken and the cursor advanced; an excluded value or one this tenant
\* holds in the network sends the loop round again, any other value ends
\* it, and the call creates the row and returns.
IpLoopStep(port) ==
    LET subnet == pending[port].row.subnet_id
        tenant_id == pending[port].row.tenant_id
        next_ip == pending[port].cursor[subnet]
        moved == [pending[port].cursor EXCEPT ![subnet] = advance(next_ip)]
        ip_policy_rules == get_ip_policy_rule_set(subnet)
        o == [result |-> "ok", kind |-> "sequential",
              row |-> [id |-> <<tenant_id, next_ip>>, address |-> next_ip,
                       subnet_id |-> subnet, network_id |-> Net,
                       tenant_id |-> tenant_id,
                       version |-> Subnets[subnet].ip_version,
                       deallocated |-> FALSE, deallocated_at |-> None,
                       ports |-> {}],
              cursor |-> moved]
        c == CommitWrites(ip_addresses, next_auto_assign_ip, o, port)
    IN  /\ pending[port].result = "scanning"
        /\ pending[port].kind = "ip"
        /\ IF \/ ip_policy_rules # {} /\ next_ip \in ip_policy_rules
              \/ ip_address_find(ip_addresses, Net, next_ip, tenant_id) # {}
           THEN /\ pending' = [pending EXCEPT ![port].cursor = moved]
                /\ UNCHANGED <<ip_addresses, next_auto_assign_ip, ipam_last>>
           ELSE /\ pending' = [pending EXCEPT ![port] = Idle]
                /\ IF c.ok
                   THEN /\ ip_addresses' = c.rows
                        /\ next_auto_assign_ip' = c.cursor
                        /\ ipam_last' = CallRecord(o, None, None, FALSE)
                   ELSE /\ ipam_last' = [CallRecord(o, None, None, FALSE)
                                            EXCEPT !.result = "IntegrityError"]
                        /\ UNCHANGED <<ip_addresses, next_auto_assign_ip>>
        /\ UNCHANGED <<subnet_policy, network_policy, now, ipam_calls>>
        /\ UNCHANGED macVars
        /\ UNCHANGED drvVars

\* allocate_mac_address for the port, with no MAC requested, up to its
\* loop: nothing to reclaim, room in the range.
EnterMacLoop(port) ==
    /\ NoneScanning
    /\ ipam_calls + Len(mac_log) < MaxScanCalls
    /\ mac_address_find_reusable(mac_addresses, MaxReuseAfter, None, now) = {}
    /\ MacRange.last_address - MacRange.first_address
           > addr_count(mac_addresses)
    /\ pending' = [pending EXCEPT ![port] =
                      [result |-> "scanning", kind |-> "mac",
                       row |-> [NoRow EXCEPT !.tenant_id = PortTenant[port]],
                       cursor |-> [r \in {MacRange.id} |->
                                      next_auto_assign_mac]]]
    /\ UNCHANGED <<ip_addresses, next_auto_assign_ip, subnet_policy,
                   network_policy, now, ipam_last, ipam_calls>>
    /\ UNCHANGED macVars
    /\ UNCHANGED drvVars

\* One iteration of the loop of allocate_mac_address: a value this tenant
\* holds sends the loop round again; any other ends it, and the call
\* creates the row and returns.
MacLoopStep(port) ==
    LET tenant_id == pending[port].row.tenant_id
        next_address == pending[port].cursor[MacRange.id]
        row == [id |-> <<tenant_id, next_address,
                         Cardinality(mac_address_find(mac_addresses, tenant_id,
                                                      next_address))>>,
                address |-> next_address, tenant_id |-> tenant_id,
                deallocated |-> FALSE, deallocated_at |-> None]
    IN  /\ pending[port].result = "scanning"
        /\ pending[port].kind = "mac"
        /\ IF mac_address_find(mac_addresses, tenant_id, next_address) # {}
           THEN /\ pending' = [pending EXCEPT
                                  ![port].cursor[MacRange.id] = next_address + 1]
                /\ UNCHANGED macVars
           ELSE /\ pending' = [pending EXCEPT ![port] = Idle]
                /\ IF MacUniqueViolation(mac_addresses, row)
                   THEN /\ mac_log' = Append(mac_log,
                                             MacCall("allocate_mac_address",
                                                     None, "sequential",
                                                     "IntegrityError", None,
                                                     FALSE))
                        /\ UNCHANGED <<mac_addresses, next_auto_assign_mac>>
                   ELSE /\ mac_addresses' = mac_addresses \cup {row}
                        /\ next_auto_assign_mac' = next_address + 1
                        /\ mac_log' = Append(mac_log,
                                             MacCall("allocate_mac_address",
                                                     None, "sequential", "ok",
                                                     next_address, FALSE))
        /\ UNCHANGED <<ip_addresses, next_auto_assign_ip, subnet_policy,
                       network_policy, now, ipam_last, ipam_calls>>
        /\ UNCHANGED drvVars

\* The calls of one plugin, one after another: the two loops step by step,
\* the calls that name their address, and the releases.
NextScan ==
    \/ \E port \in Ports : EnterIpLoop(port)
    \/ \E port \in Ports : IpLoopStep(port)
    \/ \E port \in Ports : EnterMacLoop(port)
    \/ \E port \in Ports : MacLoopStep(port)
    \/ \E port \in Ports :
          /\ NoneScanning
          /\ ipam_calls + Len(mac_log) < MaxScanCalls
          /\ AllocateIp(port, MaxReuseAfter, None, 1)
    \/ \E tenant_id \in Tenants :
          /\ NoneScanning
          /\ ipam_calls + Len(mac_log) < MaxScanCalls
          /\ AllocateMacCall(tenant_id, MaxReuseAfter, MacRange.first_address)
    \/ \E port \in Ports :
          /\ NoneScanning
          /\ ipam_calls + Len(mac_log) < MaxScanCalls
          /\ DeallocateIp(port)
    \/ \E address \in 1..MaxMac :
          /\ NoneScanning
          /\ ipam_calls + Len(mac_log) < MaxScanCalls
          /\ DeallocateMacCall(address)

\* A call inside a loop keeps running: nothing suspends it.
SpecScan ==
    /\ InitIpam
    /\ [][NextScan]_vars
    /\ \A port \in Ports : WF_vars(IpLoopStep(port)) /\ WF_vars(MacLoopStep(port))

====
